---- MODULE Spec2Model ----
(***************************************************************************)
(* Model of the Tasmota IR integration (custom_components/): the button,   *)
(* climate, fan and remote entities, their command handlers, the refresh   *)
(* handler (async_update) and the outbound HTTP call each of them makes.   *)
(*                                                                         *)
(* A handler runs without interruption up to the point where it awaits the *)
(* outbound call (hass.async_add_executor_job) and again from the arrival  *)
(* of the response up to its next outbound call or its return: these are   *)
(* the steps of the model.  The host serialises the handlers of one entity *)
(* and interleaves the handlers of different entities.                     *)
(*                                                                         *)
(* Strings that are Chinese in the source are written in ASCII here:       *)
(*   fan modes   "自动" auto_, "最小" min_, "低速" low_, "中速" med_,      *)
(*               "高速" high_, "最大" max_                                 *)
(*   swing modes "关闭" off_, "垂直" vertical_, "水平" horizontal_,        *)
(*               "双向" both_                                              *)
(***************************************************************************)
EXTENDS Integers, Sequences, FiniteSets, TLC

\* ------------------------------------------------------------------------
\* Bounds of the model
\* ------------------------------------------------------------------------

\* Longest command list handed to TasmotaIRRemote.async_send_command.
MaxCommands == 2

\* Largest configured speed_count of the fan in the percentage specification.
MaxSpeedCount == 6

\* ------------------------------------------------------------------------
\* Values
\* ------------------------------------------------------------------------

\* Python's None where the source uses it for a number (percentage,
\* temperature, timeout).
None == -1

\* Python's None for the fan's preset mode.
NonePreset == "None"

\* The timeouts the handlers write next to the outbound call.
CommandTimeout == 10

ProbeTimeout == 5

\* What the device does with a request: 2xx with a JSON body, 2xx with a body
\* that is not JSON, a non-2xx status, a transport failure (connection
\* refused, DNS failure, connection reset), or no reply at all.
Responses == {"ok_json", "ok_nojson", "http_error", "conn_error", "no_reply"}

\* Exception classes: the ones derived from requests.exceptions.RequestException
\* and every class derived from Exception that the handlers can meet.
RequestException == {"ConnectionError", "HTTPError", "Timeout"}

Exception == RequestException \cup {"JSONDecodeError", "KeyError"}

\* ------------------------------------------------------------------------
\* Infrared codes (the values of buttons / ir_codes in a config entry)
\* ------------------------------------------------------------------------

Code(data) == [protocol |-> "NEC", bits |-> 32, data |-> data]

CodeWithRepeat(data) == [protocol |-> "NEC", bits |-> 32, data |-> data, repeat |-> 2]

\* An entry of the imported configuration that lacks the data field.
CodeWithoutData == [protocol |-> "NEC", bits |-> 32]

\* code["protocol"], code["bits"], code["data"] raise KeyError when absent.
HasFields(code) == {"protocol", "bits", "data"} \subseteq DOMAIN code

\* ir_data of async_press / _send_ir_command.
IrData(code) ==
    [Protocol |-> code["protocol"],
     Bits     |-> code["bits"],
     Data     |-> code["data"],
     Repeat   |-> IF "repeat" \in DOMAIN code THEN code["repeat"] ELSE 0]

\* The keys of ir_data in the order the dict literal inserts them.
IrDataKeys == <<"Protocol", "Bits", "Data", "Repeat">>

\* ------------------------------------------------------------------------
\* Text: json.dumps and urllib.parse.quote
\* ------------------------------------------------------------------------

\* The printable ASCII characters in code-point order, 32..95 and 97..126
\* (the grave accent, 96, cannot be written in a string here).
AsciiLow == " !\"#$%&'()*+,-./0123456789:;<=>?@ABCDEFGHIJKLMNOPQRSTUVWXYZ[\\]^_"

AsciiHigh == "abcdefghijklmnopqrstuvwxyz{|}~"

HexDigits == "0123456789ABCDEF"

At(t, i) == IF i \in 1..Len(t) THEN SubSeq(t, i, i) ELSE ""

From(t, i) == SubSeq(t, i, Len(t))

Chars(t) == {At(t, i) : i \in 1..Len(t)}

IndexIn(c, t) == CHOOSE i \in 1..Len(t) : At(t, i) = c

\* Every character of the model's texts.
Ascii == Chars(AsciiLow) \cup Chars(AsciiHigh)

\* ord(c) and chr(n) of Python.
ord ==
    [c \in Ascii |->
        IF c \in Chars(AsciiLow) THEN 31 + IndexIn(c, AsciiLow) ELSE 96 + IndexIn(c, AsciiHigh)]

chr(n) == IF n < 96 THEN At(AsciiLow, n - 31) ELSE At(AsciiHigh, n - 96)

\* '%{:02X}'.format(n)
PercentHex(n) == "%" \o At(HexDigits, (n \div 16) + 1) \o At(HexDigits, (n % 16) + 1)

\* The characters urllib.parse.quote never encodes (letters, digits and
\* "_.-~") and its default safe argument "/".
AlwaysSafe == "ABCDEFGHIJKLMNOPQRSTUVWXYZabcdefghijklmnopqrstuvwxyz0123456789_.-~"

QuoteSafe == "/"

QuoteChar_PercentSafe ==
    [c \in Ascii |->
        IF c \in Chars(AlwaysSafe) \cup Chars(QuoteSafe) \cup {"%"} THEN c
        ELSE PercentHex(ord[c])]

\* What urllib.parse.quote writes for one character.
QuoteChar ==
    [c \in Ascii |->
        IF c \in Chars(AlwaysSafe) \cup Chars(QuoteSafe) THEN c ELSE PercentHex(ord[c])]

\* urllib.parse.quote(command_json)
RECURSIVE quote(_)
quote(t) ==
    IF Len(t) = 0 THEN ""
    ELSE IF Len(t) = 1 THEN QuoteChar[t]
    ELSE quote(SubSeq(t, 1, Len(t) \div 2)) \o quote(From(t, (Len(t) \div 2) + 1))

\* The escapes json.dumps writes inside a string (ensure_ascii leaves the
\* printable ASCII characters other than the quote and the backslash as they
\* are).
JsonEscapeChar(c) ==
    IF c = "\"" THEN "\\\"" ELSE IF c = "\\" THEN "\\\\" ELSE c

RECURSIVE JsonEscape(_)
JsonEscape(t) ==
    IF Len(t) = 0 THEN ""
    ELSE IF Len(t) = 1 THEN JsonEscapeChar(t)
    ELSE JsonEscape(SubSeq(t, 1, Len(t) \div 2)) \o JsonEscape(From(t, (Len(t) \div 2) + 1))

\* isinstance(v, str)
IsStr(v) == At(ToString(v), 1) = "\""

\* json.dumps of a str or an int.
JsonValue(v) == IF IsStr(v) THEN "\"" \o JsonEscape(v) \o "\"" ELSE ToString(v)

Separators_Default == [item |-> ", ", key |-> ": "]

\* The separators json.dumps is called with: (',', ':').
Separators == [item |-> ",", key |-> ":"]

RECURSIVE JsonItems(_, _, _)
JsonItems(obj, keys, sep) ==
    IF keys = <<>> THEN ""
    ELSE JsonValue(Head(keys)) \o sep.key \o JsonValue(obj[Head(keys)])
         \o (IF Len(keys) > 1 THEN sep.item ELSE "")
         \o JsonItems(obj, Tail(keys), sep)

\* json.dumps(obj, separators=(',', ':')) of a dict whose keys were inserted
\* in the order keys.
json_dumps(obj, keys) == "{" \o JsonItems(obj, keys, Separators) \o "}"

\* ------------------------------------------------------------------------
\* The outbound call
\* ------------------------------------------------------------------------

\* The address the config entry gives the entities (entry.data["device_ip"]).
DeviceIp == "192.168.1.100"

\* url = f"http://{self._device_ip}/cm?cmnd=IRsend%20{encoded_command}" and
\* the same with IRHVAC.
CommandUrl(verb, encoded_command) ==
    "http://" \o DeviceIp \o "/cm?cmnd=" \o verb \o "%20" \o encoded_command

\* url = f"http://{self._device_ip}/cm?cmnd=Status"
ProbeUrl == "http://" \o DeviceIp \o "/cm?cmnd=Status"

\* hass.async_add_executor_job(requests.get, url, {"timeout": 10}) runs
\* requests.get(url, {"timeout": 10}): the dictionary is the second positional
\* argument of requests.get, which is params, so it is sent as a query
\* parameter and the call has no timeout (requests waits without limit).
\* payload is the dict the handler serialises, keys its insertion order.
CommandCall(verb, key, payload, keys) ==
    [method  |-> "GET",
     cmnd    |-> verb,
     key     |-> key,
     payload |-> payload,
     keys    |-> keys,
     params  |-> [timeout |-> CommandTimeout],
     timeout |-> None,
     outcome |-> "pending"]

\* The same call as async_update makes it.
ProbeCall ==
    [method  |-> "GET",
     cmnd    |-> "Status",
     key     |-> "",
     payload |-> <<>>,
     keys    |-> <<>>,
     params  |-> [timeout |-> ProbeTimeout],
     timeout |-> None,
     outcome |-> "pending"]

\* The url the handler hands to requests.get: command_json =
\* json.dumps(..., separators=(',', ':')), encoded_command =
\* urllib.parse.quote(command_json), and the f-string around it.
RequestUrl(req) ==
    IF req.cmnd = "Status" THEN ProbeUrl
    ELSE CommandUrl(req.cmnd, quote(json_dumps(req.payload, req.keys)))

\* The URL requests puts on the wire: it appends the encoded params to the
\* query of url and leaves what is already percent-encoded as it is.
PreparedUrl(req) == RequestUrl(req) \o "&timeout=" \o ToString(req.params.timeout)

\* The exception the try block of a command send ends with, "None" when it
\* runs to its end: requests.get raises on a transport failure and on an
\* expired timeout, raise_for_status on a non-2xx status, response.json() on
\* a body that is not JSON.
CommandException(r) ==
    CASE r = "conn_error" -> "ConnectionError"
      [] r = "no_reply"   -> "Timeout"
      [] r = "http_error" -> "HTTPError"
      [] r = "ok_nojson"  -> "JSONDecodeError"
      [] r = "ok_json"    -> "None"

ProbeException_ReadsBody(r) == CommandException(r)

\* The same for async_update, which does not read the body.
ProbeException(r) ==
    CASE r = "conn_error" -> "ConnectionError"
      [] r = "no_reply"   -> "Timeout"
      [] r = "http_error" -> "HTTPError"
      [] r = "ok_nojson"  -> "None"
      [] r = "ok_json"    -> "None"

CommandCatches_Narrow(exc) == exc \in RequestException

CommandCatches_NoKeyError(exc) == exc \in Exception \ {"KeyError"}

\* except requests.exceptions.RequestException / except Exception of a
\* command send.
CommandCatches(exc) == exc \in RequestException \/ exc \in Exception

\* except Exception of async_update.
UpdateCatches(exc) == exc \in Exception

\* ------------------------------------------------------------------------
\* Entities and their configuration
\* ------------------------------------------------------------------------

\* Two button entities of one remote-type entry, one climate, one fan and one
\* remote entity.
Kind == [b1 |-> "button", b2 |-> "button", c |-> "climate", f |-> "fan", r |-> "remote"]

Platforms == {"button", "climate", "fan", "remote"}

\* The entities a platform's async_setup_entry creates for its config entry.
EntitiesOf(platform) == {e \in DOMAIN Kind : Kind[e] = platform}

\* The buttons mappings of the modelled remote-type entries: the second
\* button has no repeat field, has one, or lacks its data field.
ButtonsChoices ==
    {[power |-> Code("0x44BB01FE"), volume |-> second] :
        second \in {Code("0x8166D12E"), CodeWithRepeat("0x8166D12E"), CodeWithoutData}}

ButtonNameOf == [b1 |-> "power", b2 |-> "volume"]

\* f"speed_{speed_level}"
SpeedKey(level) == "speed_" \o ToString(level)

\* f"preset_{preset_mode}"
PresetKey(mode) == "preset_" \o mode

AllKeys(n, presets) ==
    {"power", "swing"} \cup {SpeedKey(i) : i \in 1..n} \cup {PresetKey(m) : m \in presets}

CodesFor(keys, broken) ==
    [k \in keys |-> IF k \in broken THEN CodeWithoutData ELSE Code("0x" \o k)]

FanConfig(n, presets, osc, codes) ==
    [speed_count |-> n, preset_modes |-> presets, oscillation_supported |-> osc,
     ir_codes |-> codes]

\* The fan entries of the model: the entry the setup wizard creates when no
\* configuration is imported (three speeds, no codes), the documented example
\* (five speeds, every code), an entry without a power code, one with only
\* power and speed_1, one whose power and speed_2 codes lack a field, and one
\* that has a swing code but oscillation_supported false.
FanConfigs ==
    {FanConfig(3, {}, TRUE, CodesFor({}, {})),
     FanConfig(5, {"sleep"}, TRUE, CodesFor(AllKeys(5, {"sleep"}), {})),
     FanConfig(3, {"sleep"}, TRUE, CodesFor(AllKeys(3, {"sleep"}) \ {"power"}, {})),
     FanConfig(3, {"sleep"}, TRUE, CodesFor({"power", "speed_1"}, {})),
     FanConfig(3, {}, TRUE, CodesFor(AllKeys(3, {}), {"power", "speed_2"})),
     FanConfig(2, {}, FALSE, CodesFor(AllKeys(2, {}), {}))}

\* Fans with every code configured, one for each speed_count.
FullFanConfigs ==
    {FanConfig(n, {}, TRUE, CodesFor(AllKeys(n, {}), {})) : n \in 1..MaxSpeedCount}

ConfigsOf(platform) ==
    CASE platform = "button"  ->
            {[e \in EntitiesOf("button") |->
                [button_name |-> ButtonNameOf[e], button_data |-> b[ButtonNameOf[e]]]] :
                b \in ButtonsChoices}
      [] platform = "remote"  ->
            {[e \in EntitiesOf("remote") |-> [buttons |-> b]] : b \in ButtonsChoices}
      [] platform = "climate" ->
            {[e \in EntitiesOf("climate") |-> [vendor |-> "COOLIX"]]}
      [] platform = "fan"     ->
            {[e \in EntitiesOf("fan") |-> fc] : fc \in FanConfigs}

\* ------------------------------------------------------------------------
\* State
\* ------------------------------------------------------------------------

VARIABLES
    entities,   \* the entities the platform setup created
    cfg,        \* cfg[e]: the configuration the entity was constructed with
    available,  \* available[e]: self._available
    appliance,  \* appliance[e]: the state variables of a climate or fan entity
    pc,         \* pc[e]: "idle", "waiting" (handler suspended on its outbound
                \* call) or "blocked" (the call never returns)
    op,         \* op[e]: the handler invocation running or last run on e
    todo,       \* todo[e]: the sends the running handler has still to make
    sent,       \* sent[e]: the requests the invocation op[e] has issued
    result,     \* result[e]: the last send or probe op[e] has tried and how
                \* it ended
    last,       \* last[e]: the last send or probe any handler of e has tried
    pre,        \* pre[e]: appliance[e] when op[e] was invoked
    raised,     \* raised[e]: op[e] ended by raising to the host
    rebuilt,    \* "never" until the entry is set up again; then whether the
                \* entities the last new setup replaced had been "used" (a flag
                \* or an appliance state away from its initial value) or were
                \* still "clean"
    hass,       \* the host: its config entries, hass.data[DOMAIN], the platform
                \* setups forwarded and run, and what the last call of
                \* async_setup_entry or async_unload_entry returned
    flow,       \* the setup wizard (ConfigFlow): self.data, the unique id, the
                \* result of its last step and what the user step was given
                \* and answered last
    options     \* the options flow (OptionsFlowHandler): its entry, the result
                \* of its last step and what that step was given

entityvars == <<entities, cfg, available, appliance, pc, op, todo, sent, result, last, pre,
                raised, rebuilt>>

vars == <<entities, cfg, available, appliance, pc, op, todo, sent, result, last, pre, raised,
          rebuilt, hass, flow, options>>

\* No wizard and no options flow is open.
NoFlow ==
    [data |-> <<>>, unique_id |-> "", result |-> [type |-> "none", step_id |-> "", errors |-> {}],
     submitted |-> <<>>, reply |-> ""]

NoOptions ==
    [entry |-> 0, result |-> [type |-> "none", step_id |-> "", errors |-> {}], step |-> "",
     submitted |-> <<>>, reloaded |-> FALSE]

NoOp == [name |-> "none"]

NoState == <<>>

\* TasmotaIRClimate.__init__; temperatures are in tenths of a degree.
ClimateInit ==
    [hvac_mode |-> "off", target_temperature |-> 250, fan_mode |-> "auto_",
     swing_mode |-> "off_"]

\* TasmotaIRFan.__init__
FanInit ==
    [is_on |-> FALSE, percentage |-> 0, oscillating |-> FALSE, preset_mode |-> NonePreset]

ApplianceInit(e) ==
    CASE Kind[e] = "climate" -> ClimateInit
      [] Kind[e] = "fan"     -> FanInit
      [] OTHER               -> NoState

\* The state after the platform's async_setup_entry has constructed the
\* entities of config c.
EntitiesConstructed(platform, c) ==
    /\ entities = EntitiesOf(platform)
    /\ cfg = c
    /\ available = [e \in EntitiesOf(platform) |-> TRUE]
    /\ appliance = [e \in EntitiesOf(platform) |-> ApplianceInit(e)]
    /\ pc = [e \in EntitiesOf(platform) |-> "idle"]
    /\ op = [e \in EntitiesOf(platform) |-> NoOp]
    /\ todo = [e \in EntitiesOf(platform) |-> <<>>]
    /\ sent = [e \in EntitiesOf(platform) |-> <<>>]
    /\ result = [e \in EntitiesOf(platform) |-> [cmnd |-> "", outcome |-> "none"]]
    /\ last = [e \in EntitiesOf(platform) |-> [cmnd |-> "", outcome |-> "none"]]
    /\ pre = [e \in EntitiesOf(platform) |-> ApplianceInit(e)]
    /\ raised = [e \in EntitiesOf(platform) |-> FALSE]
    /\ rebuilt = "never"

\* The entities of one platform, the config entries left aside.
Constructed(platform, c) ==
    /\ EntitiesConstructed(platform, c)
    /\ hass = [entries |-> <<>>]
    /\ flow = NoFlow
    /\ options = NoOptions

Init == \E platform \in Platforms : \E c \in ConfigsOf(platform) : Constructed(platform, c)

\* The fan platform alone, with every code configured.
InitPercentage == \E c \in FullFanConfigs : Constructed("fan", [e \in EntitiesOf("fan") |-> c])

\* ------------------------------------------------------------------------
\* One send
\* ------------------------------------------------------------------------

Step(call, key) == [call |-> call, key |-> key]

Request(req) == [status |-> "request", request |-> req]

Raise(exc) == [status |-> "raise", exception |-> exc]

NotFound == [status |-> "not_found"]

\* The try block of TasmotaIRButton.async_press up to the outbound call.
PressAttempt(c) ==
    IF HasFields(c.button_data)
    THEN Request(CommandCall("IRsend", c.button_name, IrData(c.button_data), IrDataKeys))
    ELSE Raise("KeyError")

\* TasmotaIRFan._send_ir_command and TasmotaIRRemote._send_ir_command up to
\* the outbound call; codes is self._ir_codes or self._buttons.
SendIrAttempt(codes, key) ==
    IF key \notin DOMAIN codes THEN NotFound
    ELSE IF HasFields(codes[key])
    THEN Request(CommandCall("IRsend", key, IrData(codes[key]), IrDataKeys))
    ELSE Raise("KeyError")

\* TASMOTA_TO_HA_MODE: device mode -> platform hvac mode.
TASMOTA_TO_HA_MODE ==
    [Off |-> "off", Auto |-> "auto", Cool |-> "cool", Heat |-> "heat", Dry |-> "dry",
     Fan |-> "fan_only"]

\* {v: k for k, v in d.items()}
Inverted(d) ==
    [v \in {d[k] : k \in DOMAIN d} |-> CHOOSE k \in DOMAIN d : d[k] = v]

\* HA_TO_TASMOTA_MODE = {v: k for k, v in TASMOTA_TO_HA_MODE.items()}
HA_TO_TASMOTA_MODE == Inverted(TASMOTA_TO_HA_MODE)

\* TASMOTA_TO_HA_FAN: device fan speed -> platform fan mode.
TASMOTA_TO_HA_FAN ==
    [Auto |-> "auto_", Min |-> "min_", Low |-> "low_", Med |-> "med_", High |-> "high_",
     Max |-> "max_"]

HA_TO_TASMOTA_FAN_Swapped ==
    [auto_ |-> "Auto", min_ |-> "Min", low_ |-> "Med", med_ |-> "Low", high_ |-> "High",
     max_ |-> "Max"]

\* HA_TO_TASMOTA_FAN, written out in the source.
HA_TO_TASMOTA_FAN ==
    [auto_ |-> "Auto", min_ |-> "Min", low_ |-> "Low", med_ |-> "Med", high_ |-> "High",
     max_ |-> "Max"]

\* The hvac_modes and fan_modes properties: list(d.keys()).
hvac_modes == DOMAIN HA_TO_TASMOTA_MODE

fan_modes == DOMAIN HA_TO_TASMOTA_FAN

\* d.get(key, default)
Get(d, key, default) == IF key \in DOMAIN d THEN d[key] ELSE default

TasmotaMode_DefaultOff(hvac_mode) == Get(HA_TO_TASMOTA_MODE, hvac_mode, "Off")

\* HA_TO_TASMOTA_MODE.get(self._hvac_mode, "Auto")
TasmotaMode(hvac_mode) == Get(HA_TO_TASMOTA_MODE, hvac_mode, "Auto")

\* HA_TO_TASMOTA_FAN.get(self._fan_mode, "Auto")
TasmotaFan(fan_mode) == Get(HA_TO_TASMOTA_FAN, fan_mode, "Auto")

CommandData_RoundsTemp(c, st) ==
    [Vendor   |-> c.vendor,
     Power    |-> IF st.hvac_mode = "off" THEN "Off" ELSE "On",
     Mode     |-> TasmotaMode(st.hvac_mode),
     Temp     |-> (st.target_temperature + 5) \div 10,
     Celsius  |-> "On",
     FanSpeed |-> TasmotaFan(st.fan_mode),
     SwingV   |-> IF st.swing_mode \in {"vertical_", "both_"} THEN "Auto" ELSE "Off",
     SwingH   |-> IF st.swing_mode \in {"horizontal_", "both_"} THEN "Auto" ELSE "Off",
     Quiet    |-> "Off",
     Turbo    |-> "Off",
     Econo    |-> "Off",
     Light    |-> "Off",
     Beep     |-> "Off"]

\* command_data of TasmotaIRClimate._send_hvac_command.
CommandData(c, st) ==
    [Vendor   |-> c.vendor,
     Power    |-> IF st.hvac_mode = "off" THEN "Off" ELSE "On",
     Mode     |-> TasmotaMode(st.hvac_mode),
     Temp     |-> st.target_temperature \div 10,
     Celsius  |-> "On",
     FanSpeed |-> TasmotaFan(st.fan_mode),
     SwingV   |-> IF st.swing_mode \in {"vertical_", "both_"} THEN "Auto" ELSE "Off",
     SwingH   |-> IF st.swing_mode \in {"horizontal_", "both_"} THEN "Auto" ELSE "Off",
     Quiet    |-> "Off",
     Turbo    |-> "Off",
     Econo    |-> "Off",
     Light    |-> "Off",
     Beep     |-> "Off"]

\* The keys of command_data in the order the dict literal inserts them.
CommandDataKeys ==
    <<"Vendor", "Power", "Mode", "Temp", "Celsius", "FanSpeed", "SwingV", "SwingH",
      "Quiet", "Turbo", "Econo", "Light", "Beep">>

\* What one step of a handler of e does up to its outbound call, st being the
\* entity's state variables at that moment.
Attempt(e, step, st) ==
    CASE step.call = "async_press"        -> PressAttempt(cfg[e])
      [] step.call = "_send_ir_command"   ->
            SendIrAttempt(IF Kind[e] = "fan" THEN cfg[e].ir_codes ELSE cfg[e].buttons, step.key)
      [] step.call = "_send_hvac_command" ->
            Request(CommandCall("IRHVAC", "", CommandData(cfg[e], st), CommandDataKeys))
      [] step.call = "async_update"       -> Request(ProbeCall)

\* A send or probe that was tried: its verb and how it ended, one of Responses
\* or the exception that ended it before the outbound call.
Attempted(cmnd, outcome) == [cmnd |-> cmnd, outcome |-> outcome]

NoAttempt == Attempted("", "none")

NotFoundAvailable_Cleared(av) == FALSE

NotFoundAvailable_Set(av) == TRUE

\* _send_ir_command returns from its "not in" test without touching
\* self._available.
NotFoundAvailable(av) == av

\* The handler of e from its current step on, until it suspends on an outbound
\* call, returns or raises.  acc carries available, sent, result, last, raised.
RECURSIVE Run(_, _, _, _)
Run(e, acc, steps, st) ==
    IF steps = <<>>
    THEN [acc EXCEPT !.pc = "idle", !.todo = <<>>]
    ELSE LET a == Attempt(e, Head(steps), st) IN
         CASE a.status = "request" ->
                [acc EXCEPT !.pc = "waiting", !.todo = Tail(steps),
                            !.sent = Append(@, a.request)]
           [] a.status = "not_found" ->
                Run(e, [acc EXCEPT !.available = NotFoundAvailable(@)], Tail(steps), st)
           [] a.status = "raise" ->
                IF CommandCatches(a.exception)
                THEN Run(e, [acc EXCEPT !.available = FALSE,
                                        !.result = Attempted("IRsend", a.exception),
                                        !.last = Attempted("IRsend", a.exception)],
                         Tail(steps), st)
                ELSE [acc EXCEPT !.pc = "idle", !.todo = <<>>, !.raised = TRUE]

\* The account of entity e as the variables hold it.
Account(e) ==
    [pc |-> pc[e], todo |-> todo[e], available |-> available[e], sent |-> sent[e],
     result |-> result[e], last |-> last[e], raised |-> raised[e]]

\* ------------------------------------------------------------------------
\* Inputs of the handlers
\* ------------------------------------------------------------------------

\* hvac modes the host can hand over: the six supported ones and one that
\* HA_TO_TASMOTA_MODE does not hold.
HvacModes == {"off", "auto", "cool", "heat", "dry", "fan_only", "heat_cool"}

\* Fan modes: three of the six supported ones and one unsupported.
FanModes == {"auto_", "low_", "max_", "turbo_"}

SwingModes == {"off_", "vertical_", "horizontal_", "both_"}

\* Temperatures in tenths of a degree, None when the call carries none.
Temperatures == {None, 160, 255}

\* Percentages the host hands to the fan in the full specification; 50 is a
\* tie of the rounding for five speeds.
Percentages == {0, 20, 50, 100}

AllPercentages == 0..100

PresetInputs == {"sleep", "turbo"}

\* Names in a command list: the two configured buttons and an unknown one.
CommandNames == {"power", "volume", "unknown"}

RECURSIVE SeqsUpTo(_, _)
SeqsUpTo(S, n) ==
    IF n = 0 THEN {<<>>}
    ELSE LET shorter == SeqsUpTo(S, n - 1)
         IN shorter \cup {Append(q, x) : q \in {t \in shorter : Len(t) = n - 1}, x \in S}

CommandLists == SeqsUpTo(CommandNames, MaxCommands)

\* ------------------------------------------------------------------------
\* Fan handlers: the sends they make and the assignments that follow
\* ------------------------------------------------------------------------

Max(a, b) == IF a >= b THEN a ELSE b

Min(a, b) == IF a <= b THEN a ELSE b

RoundHalfUp(num, den) == (2 * num + den) \div (2 * den)

\* Python's round(num / den): to the nearest integer, a tie to the even one.
Round(num, den) ==
    LET q == num \div den
        m == num % den
    IN  IF 2 * m < den THEN q
        ELSE IF 2 * m > den THEN q + 1
        ELSE IF q % 2 = 0 THEN q ELSE q + 1

\* speed_level of async_set_percentage.
SpeedLevel(percentage, speed_count) ==
    Max(1, Min(speed_count, Round(percentage * speed_count, 100)))

SendIr(key) == <<Step("_send_ir_command", key)>>

\* async_turn_off: the sends.
TurnOffSteps == SendIr("power")

TurnOffAfter_KeepsPreset(st) == [st EXCEPT !.is_on = FALSE, !.percentage = 0]

\* async_turn_off: the assignments.
TurnOffAfter(st) == [st EXCEPT !.is_on = FALSE, !.percentage = 0, !.preset_mode = NonePreset]

SetPercentageSteps_FallThrough(percentage, c) ==
    LET speed_key == SpeedKey(SpeedLevel(percentage, c.speed_count))
    IN  (IF percentage = 0 THEN TurnOffSteps ELSE <<>>)
        \o (IF speed_key \in DOMAIN c.ir_codes THEN SendIr(speed_key) ELSE <<>>)

\* async_set_percentage: the sends.
SetPercentageSteps(percentage, c) ==
    LET speed_key == SpeedKey(SpeedLevel(percentage, c.speed_count))
    IN  IF percentage = 0 THEN TurnOffSteps
        ELSE IF speed_key \in DOMAIN c.ir_codes THEN SendIr(speed_key)
        ELSE <<>>

\* async_set_percentage: the assignments.
SetPercentageAfter(percentage, c, st) ==
    LET speed_key == SpeedKey(SpeedLevel(percentage, c.speed_count))
    IN  IF percentage = 0 THEN TurnOffAfter(st)
        ELSE IF speed_key \in DOMAIN c.ir_codes
        THEN [st EXCEPT !.percentage = percentage, !.is_on = TRUE, !.preset_mode = NonePreset]
        ELSE st

\* async_set_preset_mode: the sends.
SetPresetModeSteps(preset_mode, c) ==
    IF preset_mode \notin c.preset_modes THEN <<>>
    ELSE IF PresetKey(preset_mode) \in DOMAIN c.ir_codes THEN SendIr(PresetKey(preset_mode))
    ELSE <<>>

SetPresetModeAfter_KeepsPercentage(preset_mode, c, st) ==
    IF preset_mode \notin c.preset_modes THEN st
    ELSE IF PresetKey(preset_mode) \in DOMAIN c.ir_codes
    THEN [st EXCEPT !.preset_mode = preset_mode, !.is_on = TRUE]
    ELSE st

\* async_set_preset_mode: the assignments.
SetPresetModeAfter(preset_mode, c, st) ==
    IF preset_mode \notin c.preset_modes THEN st
    ELSE IF PresetKey(preset_mode) \in DOMAIN c.ir_codes
    THEN [st EXCEPT !.preset_mode = preset_mode, !.is_on = TRUE, !.percentage = None]
    ELSE st

\* async_oscillate: the sends.
OscillateSteps(c) ==
    IF c.oscillation_supported /\ "swing" \in DOMAIN c.ir_codes THEN SendIr("swing") ELSE <<>>

OscillateAfter_Always(oscillating, c, st) == [st EXCEPT !.oscillating = oscillating]

\* async_oscillate: the assignments.
OscillateAfter(oscillating, c, st) ==
    IF c.oscillation_supported /\ "swing" \in DOMAIN c.ir_codes
    THEN [st EXCEPT !.oscillating = oscillating]
    ELSE st

\* The sends of the fan handler invocation o on a fan configured with c.
FanSteps(o, c) ==
    CASE o.name = "async_turn_off"        -> TurnOffSteps
      [] o.name = "async_set_percentage"  -> SetPercentageSteps(o.percentage, c)
      [] o.name = "async_set_preset_mode" -> SetPresetModeSteps(o.preset_mode, c)
      [] o.name = "async_oscillate"       -> OscillateSteps(c)
      [] o.name = "async_turn_on"         ->
            IF o.preset_mode # NonePreset THEN SetPresetModeSteps(o.preset_mode, c)
            ELSE IF o.percentage # None THEN SetPercentageSteps(o.percentage, c)
            ELSE SendIr("power")
      [] OTHER                            -> <<>>

\* The assignments the fan handler invocation o makes once its sends have
\* returned, whatever their outcome.
FanAfter(o, c, st) ==
    CASE o.name = "async_turn_off"        -> TurnOffAfter(st)
      [] o.name = "async_set_percentage"  -> SetPercentageAfter(o.percentage, c, st)
      [] o.name = "async_set_preset_mode" -> SetPresetModeAfter(o.preset_mode, c, st)
      [] o.name = "async_oscillate"       -> OscillateAfter(o.oscillating, c, st)
      [] o.name = "async_turn_on"         ->
            IF o.preset_mode # NonePreset THEN SetPresetModeAfter(o.preset_mode, c, st)
            ELSE IF o.percentage # None THEN SetPercentageAfter(o.percentage, c, st)
            ELSE [st EXCEPT !.is_on = TRUE]
      [] OTHER                            -> st

ClimateAssign_Dropped(o, st) == st

\* The assignment a climate handler makes before it sends.
ClimateAssign(o, st) ==
    CASE o.name = "async_set_temperature" -> [st EXCEPT !.target_temperature = o.temperature]
      [] o.name = "async_set_hvac_mode"   -> [st EXCEPT !.hvac_mode = o.hvac_mode]
      [] o.name = "async_set_fan_mode"    -> [st EXCEPT !.fan_mode = o.fan_mode]
      [] o.name = "async_set_swing_mode"  -> [st EXCEPT !.swing_mode = o.swing_mode]

\* The assignments a handler makes after its last send has returned.
After(e, o, st) == IF Kind[e] = "fan" THEN FanAfter(o, cfg[e], st) ELSE st

\* ------------------------------------------------------------------------
\* Handlers
\* ------------------------------------------------------------------------

Apply_SharedFlag(e, o, run, st) ==
    /\ pc' = [pc EXCEPT ![e] = run.pc]
    /\ todo' = [todo EXCEPT ![e] = run.todo]
    /\ available' = [x \in entities |-> run.available]
    /\ sent' = [sent EXCEPT ![e] = run.sent]
    /\ result' = [result EXCEPT ![e] = run.result]
    /\ last' = [last EXCEPT ![e] = run.last]
    /\ raised' = [raised EXCEPT ![e] = run.raised]
    /\ op' = [op EXCEPT ![e] = o]
    /\ appliance' = [appliance EXCEPT ![e] =
            IF run.pc = "idle" /\ ~run.raised THEN After(e, o, st) ELSE st]
    /\ UNCHANGED <<entities, cfg, rebuilt, hass, flow, options>>

\* The variables of entity e after its handler invocation o has run up to
\* the account run, st being its state variables at that point.
Apply(e, o, run, st) ==
    /\ pc' = [pc EXCEPT ![e] = run.pc]
    /\ todo' = [todo EXCEPT ![e] = run.todo]
    /\ available' = [available EXCEPT ![e] = run.available]
    /\ sent' = [sent EXCEPT ![e] = run.sent]
    /\ result' = [result EXCEPT ![e] = run.result]
    /\ last' = [last EXCEPT ![e] = run.last]
    /\ raised' = [raised EXCEPT ![e] = run.raised]
    /\ op' = [op EXCEPT ![e] = o]
    /\ appliance' = [appliance EXCEPT ![e] =
            IF run.pc = "idle" /\ ~run.raised THEN After(e, o, st) ELSE st]
    /\ UNCHANGED <<entities, cfg, rebuilt, hass, flow, options>>

\* The host invokes handler o of the idle entity e; the handler has assigned
\* st and goes through steps.
Begin(e, o, steps, st) ==
    /\ e \in entities
    /\ pc[e] = "idle"
    /\ pre' = [pre EXCEPT ![e] = appliance[e]]
    /\ Apply(e, o,
             Run(e, [Account(e) EXCEPT !.sent = <<>>, !.result = NoAttempt, !.raised = FALSE],
                 steps, st),
             st)

\* TasmotaIRButton.async_press
async_press(e) ==
    /\ Kind[e] = "button"
    /\ Begin(e, [name |-> "async_press"], <<Step("async_press", "")>>, appliance[e])

\* async_update of the four entity classes.
async_update(e) ==
    /\ e \in entities
    /\ Begin(e, [name |-> "async_update"], <<Step("async_update", "")>>, appliance[e])

\* TasmotaIRClimate.async_set_temperature
async_set_temperature(e, temperature) ==
    LET o == [name |-> "async_set_temperature", temperature |-> temperature]
    IN  /\ Kind[e] = "climate"
        /\ IF temperature = None
           THEN Begin(e, o, <<>>, appliance[e])
           ELSE Begin(e, o, <<Step("_send_hvac_command", "")>>, ClimateAssign(o, appliance[e]))

\* TasmotaIRClimate.async_set_hvac_mode
async_set_hvac_mode(e, hvac_mode) ==
    LET o == [name |-> "async_set_hvac_mode", hvac_mode |-> hvac_mode]
    IN  /\ Kind[e] = "climate"
        /\ Begin(e, o, <<Step("_send_hvac_command", "")>>, ClimateAssign(o, appliance[e]))

\* TasmotaIRClimate.async_set_fan_mode
async_set_fan_mode(e, fan_mode) ==
    LET o == [name |-> "async_set_fan_mode", fan_mode |-> fan_mode]
    IN  /\ Kind[e] = "climate"
        /\ Begin(e, o, <<Step("_send_hvac_command", "")>>, ClimateAssign(o, appliance[e]))

\* TasmotaIRClimate.async_set_swing_mode
async_set_swing_mode(e, swing_mode) ==
    LET o == [name |-> "async_set_swing_mode", swing_mode |-> swing_mode]
    IN  /\ Kind[e] = "climate"
        /\ Begin(e, o, <<Step("_send_hvac_command", "")>>, ClimateAssign(o, appliance[e]))

\* TasmotaIRFan.async_turn_on
async_turn_on(e, percentage, preset_mode) ==
    LET o == [name |-> "async_turn_on", percentage |-> percentage,
              preset_mode |-> preset_mode]
    IN  /\ Kind[e] = "fan"
        /\ e \in entities
        /\ Begin(e, o, FanSteps(o, cfg[e]), appliance[e])

\* TasmotaIRFan.async_turn_off
async_turn_off(e) ==
    LET o == [name |-> "async_turn_off"]
    IN  /\ Kind[e] = "fan"
        /\ e \in entities
        /\ Begin(e, o, FanSteps(o, cfg[e]), appliance[e])

\* TasmotaIRFan.async_set_percentage
async_set_percentage(e, percentage) ==
    LET o == [name |-> "async_set_percentage", percentage |-> percentage]
    IN  /\ Kind[e] = "fan"
        /\ e \in entities
        /\ Begin(e, o, FanSteps(o, cfg[e]), appliance[e])

\* TasmotaIRFan.async_set_preset_mode
async_set_preset_mode(e, preset_mode) ==
    LET o == [name |-> "async_set_preset_mode", preset_mode |-> preset_mode]
    IN  /\ Kind[e] = "fan"
        /\ e \in entities
        /\ Begin(e, o, FanSteps(o, cfg[e]), appliance[e])

\* TasmotaIRFan.async_oscillate
async_oscillate(e, oscillating) ==
    LET o == [name |-> "async_oscillate", oscillating |-> oscillating]
    IN  /\ Kind[e] = "fan"
        /\ e \in entities
        /\ Begin(e, o, FanSteps(o, cfg[e]), appliance[e])

SendCommandSteps_FirstOnly(command, buttons) ==
    LET known(cmd) == cmd \in DOMAIN buttons
        names == SelectSeq(command, known)
    IN  [i \in 1..(IF names = <<>> THEN 0 ELSE 1) |-> Step("_send_ir_command", names[i])]

\* The sends of async_send_command: one for each name that is a button.
SendCommandSteps(command, buttons) ==
    LET known(cmd) == cmd \in DOMAIN buttons
        names == SelectSeq(command, known)
    IN  [i \in 1..Len(names) |-> Step("_send_ir_command", names[i])]

\* TasmotaIRRemote.async_send_command
async_send_command(e, command) ==
    /\ Kind[e] = "remote"
    /\ e \in entities
    /\ Begin(e, [name |-> "async_send_command", command |-> command],
             SendCommandSteps(command, cfg[e].buttons), appliance[e])

\* ------------------------------------------------------------------------
\* The end of an outbound call
\* ------------------------------------------------------------------------

InFlight(e) == sent[e][Len(sent[e])]

AvailableOnSuccess_Kept(av) == av

\* self._available = True at the end of the try block.
AvailableOnSuccess(av) == TRUE

\* The handler of e resumes: its outbound call ended with exception exc
\* ("None" for none), which its except clauses catch or not.
Resume(e, r, exc, caught) ==
    LET acc0 == [Account(e) EXCEPT !.sent = [@ EXCEPT ![Len(@)].outcome = r]]
        done == Attempted(InFlight(e).cmnd, r)
        acc1 == IF exc = "None"
                THEN [acc0 EXCEPT !.available = AvailableOnSuccess(@), !.result = done,
                                  !.last = done]
                ELSE IF caught
                THEN [acc0 EXCEPT !.available = FALSE, !.result = done, !.last = done]
                ELSE [acc0 EXCEPT !.raised = TRUE, !.result = done, !.last = done]
        run  == IF acc1.raised
                THEN [acc1 EXCEPT !.pc = "idle", !.todo = <<>>]
                ELSE Run(e, acc1, todo[e], appliance[e])
    IN  /\ Apply(e, op[e], run, appliance[e])
        /\ UNCHANGED pre

\* The outbound call of a command send returns or raises.
CommandResponse(e, r) ==
    /\ e \in entities
    /\ pc[e] = "waiting"
    /\ InFlight(e).cmnd # "Status"
    /\ r = "no_reply" => InFlight(e).timeout # None
    /\ Resume(e, r, CommandException(r), CommandCatches(CommandException(r)))

\* The outbound call of async_update returns or raises.
ProbeResponse(e, r) ==
    /\ e \in entities
    /\ pc[e] = "waiting"
    /\ InFlight(e).cmnd = "Status"
    /\ r = "no_reply" => InFlight(e).timeout # None
    /\ Resume(e, r, ProbeException(r), UpdateCatches(ProbeException(r)))

\* The device never replies to a call that has no timeout: requests.get
\* does not return and the handler stays suspended.
NoResponse(e) ==
    /\ e \in entities
    /\ pc[e] = "waiting"
    /\ InFlight(e).timeout = None
    /\ pc' = [pc EXCEPT ![e] = "blocked"]
    /\ UNCHANGED <<entities, cfg, available, appliance, op, todo, sent, result, last, pre, raised,
                   rebuilt, hass, flow, options>>

\* ------------------------------------------------------------------------
\* Specifications
\* ------------------------------------------------------------------------

Next ==
    \E e \in DOMAIN Kind :
        \/ async_press(e)
        \/ async_update(e)
        \/ \E t \in Temperatures : async_set_temperature(e, t)
        \/ \E m \in HvacModes : async_set_hvac_mode(e, m)
        \/ \E m \in FanModes : async_set_fan_mode(e, m)
        \/ \E m \in SwingModes : async_set_swing_mode(e, m)
        \/ \E p \in {None, 0, 50} : \E m \in {NonePreset, "sleep"} : async_turn_on(e, p, m)
        \/ async_turn_off(e)
        \/ \E p \in Percentages : async_set_percentage(e, p)
        \/ \E m \in PresetInputs : async_set_preset_mode(e, m)
        \/ \E b \in BOOLEAN : async_oscillate(e, b)
        \/ \E command \in CommandLists : async_send_command(e, command)
        \/ \E r \in Responses : CommandResponse(e, r)
        \/ \E r \in Responses : ProbeResponse(e, r)
        \/ NoResponse(e)

Spec == Init /\ [][Next]_vars

\* The first command of a fan: async_set_percentage.
FirstSetPercentage(e, percentage) ==
    /\ op[e] = NoOp
    /\ async_set_percentage(e, percentage)

\* The fan with every code configured: its first command is
\* async_set_percentage with any percentage, the later ones take theirs from
\* Percentages.
NextPercentage ==
    \E e \in EntitiesOf("fan") :
        \/ \E p \in AllPercentages : FirstSetPercentage(e, p)
        \/ \E p \in Percentages : async_set_percentage(e, p)
        \/ \E r \in Responses : CommandResponse(e, r)
        \/ NoResponse(e)

SpecPercentage == InitPercentage /\ [][NextPercentage]_vars

\* Infrared codes whose fields are of every form the configuration import
\* accepts: hexadecimal text, a number, bits written as text, a repeat count,
\* and text with characters that json.dumps escapes or quote encodes.
ValidCodes ==
    <<Code("0x44BB01FE"),
     CodeWithRepeat("0x8166D12E"),
     [protocol |-> "NEC", bits |-> 32, data |-> 1153106430],
     [protocol |-> "SAMSUNG", bits |-> "32", data |-> "0xE0E040BF", repeat |-> 1],
     [protocol |-> "RC5", bits |-> 12, data |-> "0x0C 0D"],
     [protocol |-> "RAW", bits |-> 0, data |-> "50%41", repeat |-> 0],
     [protocol |-> "PANASONIC/2", bits |-> 48, data |-> "a\"b\\c"],
     [protocol |-> "SONY", bits |-> 12, data |-> "A+B&C=D~{E}", repeat |-> 2]>>

\* Entries in which every command of the entity is the code.
EncodingConfigs(platform, code) ==
    CASE platform = "button" ->
            [e \in EntitiesOf("button") |->
                [button_name |-> ButtonNameOf[e], button_data |-> code]]
      [] platform = "remote" ->
            [e \in EntitiesOf("remote") |->
                [buttons |-> [power |-> code, volume |-> CodeWithRepeat("0x8166D12E")]]]
      [] platform = "fan"    ->
            [e \in EntitiesOf("fan") |->
                FanConfig(1, {}, TRUE, [k \in AllKeys(1, {}) |-> code])]

InitEncoding ==
    \E platform \in {"button", "remote", "fan"} : \E i \in 1..Len(ValidCodes) :
        Constructed(platform, EncodingConfigs(platform, ValidCodes[i]))

\* The handlers that send a direct infrared command.
NextEncoding ==
    \E e \in DOMAIN Kind :
        \/ async_press(e)
        \/ async_turn_on(e, None, NonePreset)
        \/ async_turn_off(e)
        \/ \E b \in BOOLEAN : async_oscillate(e, b)
        \/ \E name \in CommandNames : async_send_command(e, <<name>>)
        \/ \E r \in Responses : CommandResponse(e, r)
        \/ NoResponse(e)

SpecEncoding == InitEncoding /\ [][NextEncoding]_vars

Reconstructed_Restored(e, old) == old

\* The state variables of the entity that replaces e when the entry is set
\* up again: __init__ assigns them, nothing is read back from the object it
\* replaces (whose state was old).
Reconstructed(e, old) == ApplianceInit(e)

\* The host restarts or reloads the config entry: the platform's
\* async_setup_entry constructs the entities anew from the same entry data.
\* A handler of a replaced entity that is still suspended acts on the
\* replaced object only.
Reload ==
    /\ rebuilt' = IF \E e \in entities : ~available[e] \/ appliance[e] # ApplianceInit(e)
                  THEN "used" ELSE "clean"
    /\ available' = [e \in entities |-> TRUE]
    /\ appliance' = [e \in entities |-> Reconstructed(e, appliance[e])]
    /\ pc' = [e \in entities |-> "idle"]
    /\ op' = [e \in entities |-> NoOp]
    /\ todo' = [e \in entities |-> <<>>]
    /\ sent' = [e \in entities |-> <<>>]
    /\ result' = [e \in entities |-> NoAttempt]
    /\ last' = [e \in entities |-> NoAttempt]
    /\ pre' = [e \in entities |-> ApplianceInit(e)]
    /\ raised' = [e \in entities |-> FALSE]
    /\ UNCHANGED <<entities, cfg, hass, flow, options>>

NextReload == Next \/ Reload

\* The integration with restarts and reloads of the config entry.
SpecReload == Init /\ [][NextReload]_vars

\* ------------------------------------------------------------------------
\* Config entries: async_setup_entry, the platform setups, async_unload_entry
\* ------------------------------------------------------------------------

\* The config entries the model follows: one, the first the host holds.
\* Further entries of the host are left out; the wizard's last step is
\* followed only while there is room for its entry.
Followed == {1}

\* config_entry.entry_id of the i-th entry.
entry_id(i) == "entry" \o ToString(i)

\* str.replace(old, new) for a one-character old.
RECURSIVE Replace(_, _, _)
Replace(t, old, new) ==
    IF t = "" THEN ""
    ELSE (IF At(t, 1) = old THEN new ELSE At(t, 1)) \o Replace(From(t, 2), old, new)

\* {**a, **b} and dict.update
Update(a, b) == [k \in DOMAIN a \cup DOMAIN b |-> IF k \in DOMAIN b THEN b[k] ELSE a[k]]

\* The platforms async_setup_entry and async_unload_entry choose for a
\* device type.
PlatformsOfType == [climate |-> <<"climate">>, fan |-> <<"fan">>, remote |-> <<"button">>]

\* What async_setup_entry or async_unload_entry returned, for which entry,
\* with the platforms it forwarded to, the results of the platform unloads
\* it awaited and hass.data[DOMAIN] as it was when it was called.
Returned(call, i, value, platforms, results, before) ==
    [call |-> call, entry |-> i, value |-> value, platforms |-> platforms,
     results |-> results, before |-> before]

\* async_setup_entry of __init__.py on entry i.
SetupEntry(h, i) ==
    LET device_type == Get(h.entries[i].data, "device_type", "climate")
        setdefault  == [h EXCEPT !.domain_data.present = TRUE]
    IN  IF device_type \notin DOMAIN PlatformsOfType
        THEN [setdefault EXCEPT
                !.entries[i].state = "setup_error",
                !.forwarded[i] = <<>>,
                !.ret = Returned("async_setup_entry", i, FALSE, <<>>, <<>>, h.domain_data)]
        ELSE LET platforms == PlatformsOfType[device_type]
             IN  [setdefault EXCEPT
                    !.entries[i].state = "loaded",
                    !.forwarded[i] = platforms,
                    !.tasks = @ \cup {<<i, platforms[k]>> : k \in 1..Len(platforms)},
                    !.ret = Returned("async_setup_entry", i, TRUE, platforms, <<>>,
                                     h.domain_data)]

\* TasmotaIRButton.__init__: safe_button_name
safe_button_name(button_name) ==
    Replace(Replace(Replace(button_name, " ", "_"), ".", "_"), "-", "_")

\* The entities the platform's async_setup_entry hands to async_add_entities
\* for entry i, each with the button name it stands for and its unique id;
\* none when config_entry.data.get("device_type") is not the platform's.
AddedBy(platform, data, i) ==
    LET guard == [climate |-> "climate", fan |-> "fan", button |-> "remote",
                  remote |-> "remote"]
        entity(key, unique_id) == [platform |-> platform, key |-> key, unique_id |-> unique_id]
    IN  IF Get(data, "device_type", "None") # guard[platform] THEN {}
        ELSE IF platform = "button"
        THEN {entity(button_name,
                     "tasmota_ir_button_" \o entry_id(i) \o "_" \o safe_button_name(button_name)) :
                button_name \in DOMAIN Get(data, "buttons", <<>>)}
        ELSE {entity("", "tasmota_ir_" \o platform \o "_" \o entry_id(i))}

\* The results of the platform unloads of an entry that is loaded: it has
\* one platform, whose unload returns True or False, or raises.
UnloadOutcomes == [1..1 -> {"True", "False", "raise"}]

\* async_unload_entry of __init__.py on entry i, results[k] being how the
\* unload of its k-th platform ended. When it returns True the host takes
\* the entry for unloaded and its entities for gone.
UnloadEntry(h, i, results) ==
    LET device_type == Get(h.entries[i].data, "device_type", "climate")
        platforms   == IF device_type \in DOMAIN PlatformsOfType
                       THEN PlatformsOfType[device_type] ELSE <<>>
        unload_ok   == \A k \in 1..Len(platforms) :
                            results[k] = "True" \/ results[k] # "raise"
    IN  [h EXCEPT
            !.domain_data.keys = IF unload_ok THEN @ \ {entry_id(i)} ELSE @,
            !.entries[i].state = IF unload_ok THEN "not_loaded" ELSE "failed_unload",
            !.added[i] = IF unload_ok THEN {} ELSE @,
            !.ret = Returned("async_unload_entry", i, unload_ok, platforms, results,
                             h.domain_data)]

\* The host sets up an entry that is not loaded.
async_setup_entry(i) ==
    /\ i \in DOMAIN hass.entries
    /\ hass.entries[i].state = "not_loaded"
    /\ hass' = SetupEntry(hass, i)
    /\ UNCHANGED <<entityvars, flow, options>>

\* The task async_setup_entry created runs: the platform's async_setup_entry.
async_forward_entry_setup(i, platform) ==
    /\ <<i, platform>> \in hass.tasks
    /\ hass' = [hass EXCEPT
                    !.tasks = @ \ {<<i, platform>>},
                    !.added[i] = {x \in @ : x.platform # platform}
                                    \cup AddedBy(platform, hass.entries[i].data, i)]
    /\ UNCHANGED <<entityvars, flow, options>>

\* The host unloads a loaded entry whose platforms have been set up.
async_unload_entry(i, results) ==
    /\ i \in DOMAIN hass.entries
    /\ hass.entries[i].state = "loaded"
    /\ \A t \in hass.tasks : t[1] # i
    /\ hass' = UnloadEntry(hass, i, results)
    /\ UNCHANGED <<entityvars, flow, options>>

\* ------------------------------------------------------------------------
\* The setup wizard (ConfigFlow)
\* ------------------------------------------------------------------------

Hosts == {"192.168.1.100", "192.168.1.101"}

\* How validate_input ends: it returns ("None") or raises CannotConnect or
\* InvalidHost. "ok_json" is a JSON body without a Status key, "ok_status" one
\* with it. The probe is called without a timeout, so "no_reply" never gets
\* here.
validate_input(reply, jsonIsRequestException) ==
    CASE reply = "conn_error" -> "CannotConnect"
      [] reply = "http_error" -> "CannotConnect"
      [] reply = "ok_nojson"  -> IF jsonIsRequestException THEN "CannotConnect"
                                 ELSE "InvalidHost"
      [] reply = "ok_json"    -> "InvalidHost"
      [] reply = "ok_status"  -> "None"

\* The result of a flow step that shows a form, errors being the values of
\* its errors dict.
Form(step_id, errors) == [type |-> "form", step_id |-> step_id, errors |-> errors]

\* The result of self.async_create_entry.
CreateEntry == [type |-> "create_entry", step_id |-> "", errors |-> {}]

\* The text pasted into import_config or update_config: "" for none,
\* "malformed" for a text that does not parse, or a "document" that holds
\* config.
Import(text, config) == [text |-> text, config |-> config]

\* parse_config_import: the dict of the text; {} for an empty text and when
\* parsing raised.
parse_config_import(document) ==
    IF document.text \in {"", "malformed"} THEN <<>> ELSE document.config

FanImports ==
    {Import("", <<>>),
     Import("document",
            [fan_config |-> [speed_count |-> 5, oscillation_supported |-> FALSE,
                             preset_modes |-> <<"sleep">>],
             ir_codes |-> [power |-> Code("0x44BB01FE")]])}

\* No text, a text that does not parse, a configuration without buttons,
\* with none, with one, and with four whose names differ in punctuation.
RemoteImports ==
    {Import("", <<>>), Import("malformed", <<>>),
     Import("document", [vendor |-> "GREE"]),
     Import("document", [buttons |-> <<>>]),
     Import("document", [buttons |-> [power |-> Code("0x44BB01FE")]]),
     Import("document", [buttons |-> [n \in {"vol up", "vol.up", "vol-up", "vol_up"} |->
                                            Code("0x8166D12E")]])}

\* The host opens the wizard: ConfigFlow.__init__ and async_step_user(None).
\* The host shows one dialog at a time and drops the options flow that has
\* finished.
StartFlow ==
    /\ flow.result.type # "form"
    /\ options.result.type # "form"
    /\ flow' = [NoFlow EXCEPT !.result = Form("user", {})]
    /\ options' = NoOptions
    /\ UNCHANGED <<entityvars, hass>>

\* async_step_user with the submitted form, reply being what the device
\* answers to the probe; exc is what the try block raises.
async_step_user(user_input, reply) ==
    /\ flow.result.type = "form"
    /\ flow.result.step_id = "user"
    /\ IF reply = "no_reply"
       THEN flow' = [flow EXCEPT !.result = [type |-> "suspended", step_id |-> "user",
                                             errors |-> {}],
                                 !.submitted = user_input, !.reply = reply]
       ELSE LET validated == validate_input(reply, hass.json_is_request_exception)
                unique_id == "tasmota_ir_" \o user_input.device_type
                                \o "_" \o Replace(user_input.host, ".", "_")
                                \o "_" \o Replace(user_input.name, " ", "_")
                exc == IF validated # "None" THEN validated
                       ELSE IF \E i \in DOMAIN hass.entries :
                                    hass.entries[i].unique_id = unique_id
                       THEN "AbortFlow" ELSE "None"
                errors == CASE exc = "CannotConnect" -> "cannot_connect"
                            [] exc = "InvalidHost"   -> "invalid_host"
                            [] OTHER                 -> "unknown"
            IN  IF exc = "None"
                THEN flow' = [data |-> Update(flow.data,
                                        [device_type |-> user_input.device_type,
                                         name |-> user_input.name,
                                         device_ip |-> user_input.host]),
                              unique_id |-> unique_id,
                              result |-> Form(user_input.device_type, {}),
                              submitted |-> user_input, reply |-> reply]
                ELSE flow' = [flow EXCEPT
                                !.unique_id = IF validated = "None" THEN unique_id ELSE @,
                                !.result = Form("user", {errors}),
                                !.submitted = user_input, !.reply = reply]
    /\ UNCHANGED <<entityvars, hass, options>>

\* self.async_create_entry: the host stores the new entry under the flow's
\* unique id and sets it up.
Created(h, title, data) ==
    LET i == CHOOSE n \in Followed : n \notin DOMAIN h.entries
    IN  SetupEntry([h EXCEPT !.entries =
                        [n \in DOMAIN h.entries \cup {i} |->
                            IF n = i
                            THEN [data |-> data, title |-> title,
                                  unique_id |-> flow.unique_id, state |-> "not_loaded"]
                            ELSE h.entries[n]]], i)

\* What the climate step is given: the vendor typed in, or left empty and
\* imported.
ClimateInputs ==
    {[vendor |-> "MIDEA", import_config |-> Import("", <<>>)],
     [vendor |-> "", import_config |-> Import("document", [vendor |-> "GREE", min_temp |-> 180])]}

\* async_step_climate with the submitted form; temperatures are in tenths of
\* a degree.
async_step_climate(user_input) ==
    /\ flow.result.type = "form"
    /\ flow.result.step_id = "climate"
    /\ DOMAIN hass.entries # Followed
    /\ LET imported_config == parse_config_import(user_input.import_config)
           final_data == Update(flow.data,
                [vendor |-> IF user_input.vendor # "" THEN user_input.vendor
                            ELSE Get(imported_config, "vendor", "COOLIX"),
                 supported_modes |-> Get(imported_config, "supported_modes",
                        <<"off", "auto", "cool", "heat", "dry", "fan_only">>),
                 supported_fan_modes |-> Get(imported_config, "supported_fan_modes",
                        <<"auto", "low", "medium", "high">>),
                 min_temp |-> Get(imported_config, "min_temp", 160),
                 max_temp |-> Get(imported_config, "max_temp", 300),
                 temp_step |-> Get(imported_config, "temp_step", 5),
                 swing_modes |-> Get(imported_config, "swing_modes",
                        <<"off", "vertical", "horizontal", "both">>)])
       IN  hass' = Created(hass, flow.data.name \o " (climate)", final_data)
    /\ flow' = [flow EXCEPT !.result = CreateEntry]
    /\ UNCHANGED <<entityvars, options>>

\* f"{speed_count}..." and, with presets, f"{preset_count}...", joined.
FanTitle(name, fan_config) ==
    LET speed_count  == Get(fan_config, "speed_count", 3)
        preset_count == Len(Get(fan_config, "preset_modes", <<>>))
    IN  name \o " (" \o ToString(speed_count) \o " speeds"
            \o (IF preset_count > 0 THEN ", " \o ToString(preset_count) \o " presets" ELSE "")
            \o ")"

\* The keys derived from fan_config.
FanDerived(fan_config) ==
    [supported_speeds |-> [i \in 1..Get(fan_config, "speed_count", 3) |-> ToString(i)],
     oscillation_supported |-> Get(fan_config, "oscillation_supported", TRUE),
     preset_modes |-> Get(fan_config, "preset_modes", <<>>)]

\* async_step_fan with the submitted form.
async_step_fan(user_input) ==
    /\ flow.result.type = "form"
    /\ flow.result.step_id = "fan"
    /\ DOMAIN hass.entries # Followed
    /\ LET imported_config == parse_config_import(user_input.import_config)
           fan_config == Get(imported_config, "fan_config",
                             [speed_count |-> 3, oscillation_supported |-> TRUE,
                              timer_supported |-> FALSE, preset_modes |-> <<>>])
           ir_codes   == Get(imported_config, "ir_codes", <<>>)
           final_data == Update(Update(flow.data,
                                       [fan_config |-> fan_config, ir_codes |-> ir_codes]),
                                FanDerived(fan_config))
       IN  hass' = Created(hass, FanTitle(flow.data.name, fan_config), final_data)
    /\ flow' = [flow EXCEPT !.result = CreateEntry]
    /\ UNCHANGED <<entityvars, options>>

\* f"{name} ({button_count}...)"
RemoteTitle(name, button_count) == name \o " (" \o ToString(button_count) \o " buttons)"

\* async_step_remote with the submitted form.
async_step_remote(user_input) ==
    /\ flow.result.type = "form"
    /\ flow.result.step_id = "remote"
    /\ LET imported_config == parse_config_import(user_input.import_config)
           final_data == Update(flow.data, [buttons |-> Get(imported_config, "buttons", <<>>)])
           buttons    == Get(final_data, "buttons", <<>>)
       IN  IF DOMAIN buttons = {}
           THEN /\ flow' = [flow EXCEPT !.result = Form("remote", {"no_buttons"})]
                /\ UNCHANGED hass
           ELSE /\ DOMAIN hass.entries # Followed
                /\ hass' = Created(hass, RemoteTitle(flow.data.name, Cardinality(DOMAIN buttons)),
                                   final_data)
                /\ flow' = [flow EXCEPT !.result = CreateEntry]
    /\ UNCHANGED <<entityvars, options>>

\* ------------------------------------------------------------------------
\* The options flow (OptionsFlowHandler)
\* ------------------------------------------------------------------------

\* The options flow after a step: the step, what it was given and whether
\* it called async_reload.
OptionsAfter(i, step_result, step, user_input, reloaded) ==
    [entry |-> i, result |-> step_result, step |-> step, submitted |-> user_input,
     reloaded |-> reloaded]

\* The host opens the options of entry i: OptionsFlowHandler.__init__ and
\* async_step_init(None). The host shows one dialog at a time and drops the
\* wizard that has finished.
OpenOptions(i) ==
    /\ i \in DOMAIN hass.entries
    /\ flow.result.type # "form"
    /\ options' = OptionsAfter(i, Form("init", {}), "", <<>>, FALSE)
    /\ flow' = NoFlow
    /\ UNCHANGED <<entityvars, hass>>

\* The step returns without touching the entry.
OptionsUnchanged(step_result, step, user_input) ==
    /\ options' = OptionsAfter(options.entry, step_result, step, user_input, FALSE)
    /\ UNCHANGED hass

\* async_update_entry with new_data and new_title, then async_reload and
\* async_create_entry. async_reload unloads the entry if it is loaded and,
\* unless that failed, sets it up again; it refuses, raising, an entry whose
\* unload had failed before.
OptionsUpdate(step, user_input, new_data, new_title, results) ==
    LET i        == options.entry
        updated  == [hass EXCEPT !.entries[i].data = new_data, !.entries[i].title = new_title]
        unloaded == IF hass.entries[i].state = "loaded" THEN UnloadEntry(updated, i, results)
                    ELSE updated
    IN  /\ hass' = IF unloaded.entries[i].state = "failed_unload" THEN unloaded
                   ELSE SetupEntry(unloaded, i)
        /\ options' = OptionsAfter(i,
                IF hass.entries[i].state = "failed_unload"
                THEN [type |-> "raised", step_id |-> step, errors |-> {}] ELSE CreateEntry,
                step, user_input, TRUE)

\* async_step_init with the submitted form.
async_step_init(user_input, results) ==
    /\ options.result = Form("init", {})
    /\ LET data        == hass.entries[options.entry].data
           device_type == Get(data, "device_type", "climate")
       IN  IF user_input.update_device_config /\ device_type \in {"climate", "fan", "remote"}
           THEN OptionsUnchanged(Form(device_type \o "_options", {}), "init", user_input)
           ELSE IF user_input.device_ip # Get(data, "device_ip", "None")
           THEN OptionsUpdate("init", user_input,
                              Update(data, [device_ip |-> user_input.device_ip]),
                              hass.entries[options.entry].title, results)
           ELSE OptionsUnchanged(CreateEntry, "init", user_input)
    /\ UNCHANGED <<entityvars, flow>>

Restrict(d, keys) == [k \in DOMAIN d \cap keys |-> d[k]]

\* async_step_climate_options with the submitted form.
async_step_climate_options(user_input, results) ==
    /\ options.result = Form("climate_options", {})
    /\ LET data     == hass.entries[options.entry].data
           vendored == IF user_input.vendor # ""
                       THEN Update(data, [vendor |-> user_input.vendor]) ELSE data
           imported_config == parse_config_import(user_input.update_config)
       IN  OptionsUpdate("climate_options", user_input,
                         Update(vendored,
                                Restrict(imported_config,
                                         {"vendor", "supported_modes", "supported_fan_modes",
                                          "min_temp", "max_temp", "temp_step", "swing_modes"})),
                         hass.entries[options.entry].title, results)
    /\ UNCHANGED <<entityvars, flow>>

\* async_step_fan_options with the submitted form.
async_step_fan_options(user_input, results) ==
    /\ options.result = Form("fan_options", {})
    /\ LET data == hass.entries[options.entry].data
           imported_config == parse_config_import(user_input.update_config)
           with_config == IF "fan_config" \in DOMAIN imported_config
                          THEN Update(Update(data, [fan_config |-> imported_config.fan_config]),
                                      FanDerived(imported_config.fan_config))
                          ELSE data
           new_data == Update(with_config, Restrict(imported_config, {"ir_codes"}))
       IN  IF DOMAIN imported_config # {}
           THEN OptionsUpdate("fan_options", user_input, new_data,
                              FanTitle(Get(new_data, "name", "Tasmota IR Device"),
                                       Get(new_data, "fan_config", <<>>)),
                              results)
           ELSE OptionsUnchanged(CreateEntry, "fan_options", user_input)
    /\ UNCHANGED <<entityvars, flow>>

\* async_step_remote_options with the submitted form.
async_step_remote_options(user_input, results) ==
    /\ options.result = Form("remote_options", {})
    /\ LET data == hass.entries[options.entry].data
           imported_config == parse_config_import(user_input.update_config)
       IN  IF DOMAIN imported_config # {} /\ "buttons" \in DOMAIN imported_config
           THEN OptionsUpdate("remote_options", user_input,
                              Update(data, [buttons |-> imported_config.buttons]),
                              RemoteTitle(Get(data, "name", "Tasmota IR Device"),
                                          Cardinality(DOMAIN imported_config.buttons)),
                              results)
           ELSE OptionsUnchanged(CreateEntry, "remote_options", user_input)
    /\ UNCHANGED <<entityvars, flow>>

\* No entity is followed: the platforms' entities are in hass.added. The
\* host holds no entry of the integration yet, or one stored without a
\* device_type, or one whose device_type is none of the three the wizard
\* offers; json_is_request_exception tells whether the installed requests
\* derives its JSONDecodeError from RequestException.
InitEntry ==
    /\ EntitiesConstructed("none", <<>>)
    /\ \E stored \in {<<>>,
                      [device_ip |-> DeviceIp, name |-> "Living Room", vendor |-> "COOLIX"],
                      [device_type |-> "light", device_ip |-> DeviceIp,
                       name |-> "Living Room"]} :
       \E jsonIsRequestException \in BOOLEAN :
            hass = [entries |-> IF stored = <<>> THEN <<>>
                                ELSE [i \in Followed |->
                                        [data |-> stored, title |-> "Living Room",
                                         unique_id |-> "", state |-> "not_loaded"]],
                    domain_data |-> [present |-> FALSE, keys |-> {}],
                    forwarded |-> [i \in Followed |-> <<>>],
                    tasks |-> {},
                    added |-> [i \in Followed |-> {}],
                    ret |-> Returned("none", 0, FALSE, <<>>, <<>>,
                                     [present |-> FALSE, keys |-> {}]),
                    json_is_request_exception |-> jsonIsRequestException]
    /\ flow = NoFlow
    /\ options = NoOptions

NextEntry ==
    \/ \E i \in Followed : async_setup_entry(i)
    \/ \E i \in Followed : \E platform \in Platforms : async_forward_entry_setup(i, platform)
    \/ \E i \in Followed : \E results \in UnloadOutcomes : async_unload_entry(i, results)
    \/ StartFlow
    \/ \E host \in Hosts : \E device_type \in {"climate", "fan", "remote"} :
       \E reply \in Responses \cup {"ok_status"} :
            async_step_user([name |-> "Living Room", device_type |-> device_type,
                             host |-> host], reply)
    \/ \E user_input \in ClimateInputs : async_step_climate(user_input)
    \/ \E document \in FanImports : async_step_fan([import_config |-> document])
    \/ \E document \in RemoteImports : async_step_remote([import_config |-> document])
    \/ \E i \in Followed : OpenOptions(i)
    \/ \E device_ip \in Hosts : \E update_device_config \in BOOLEAN :
       \E results \in UnloadOutcomes :
            async_step_init([device_ip |-> device_ip,
                             update_device_config |-> update_device_config], results)
    \/ \E x \in ClimateInputs : \E results \in UnloadOutcomes :
            async_step_climate_options([vendor |-> x.vendor, update_config |-> x.import_config],
                                       results)
    \/ \E document \in FanImports : \E results \in UnloadOutcomes :
            async_step_fan_options([update_config |-> document], results)
    \/ \E document \in RemoteImports : \E results \in UnloadOutcomes :
            async_step_remote_options([update_config |-> document], results)

\* The integration's config entries, wizard and options flow.
SpecEntry == InitEntry /\ [][NextEntry]_vars

\* ------------------------------------------------------------------------
\* Properties
\* ------------------------------------------------------------------------

\* The request the handler of e issued last.
LastSent(e) == sent[e][Len(sent[e])]

\* The ways the outbound call of a command send fails.
CommandFailures == {"conn_error", "no_reply", "http_error", "ok_nojson"}

\* op[e] is a command, not a refresh.
IsCommand(e) == op[e].name \notin {"none", "async_update"}

\* C1: for every entity kind, when the outbound call of a command send has
\* failed (transport failure, timeout, non-2xx status or a body that is not
\* JSON), the handler has returned without raising and the availability flag
\* is false.
C1_FailedSendUnavailable ==
    \A e \in entities :
        (/\ sent[e] # <<>>
         /\ LastSent(e).cmnd \in {"IRsend", "IRHVAC"}
         /\ LastSent(e).outcome \in CommandFailures)
        => (pc[e] = "idle" /\ ~raised[e] /\ ~available[e])

\* A climate command has come back with a 2xx status and a body that is not
\* JSON, and the entity is unavailable.
C1_Witness ==
    \E e \in entities :
        /\ Kind[e] = "climate"
        /\ IsCommand(e)
        /\ sent[e] # <<>>
        /\ LastSent(e).outcome = "ok_nojson"
        /\ pc[e] = "idle"
        /\ ~available[e]

\* C2: for every entity kind, the step in which the outbound call of a
\* command send returns a 2xx status with a JSON body sets the availability
\* flag to true whatever it was before (the step is left out when the same
\* handler goes on to a send that ends before its outbound call).
C2_SuccessfulSendAvailable ==
    [][\A e \in entities :
        (/\ pc[e] = "waiting"
         /\ LastSent(e).cmnd \in {"IRsend", "IRHVAC"}
         /\ sent'[e][Len(sent[e])].outcome = "ok_json"
         /\ Len(todo[e]) - Len(todo'[e]) = Len(sent'[e]) - Len(sent[e]))
        => available'[e]]_vars

\* A remote whose first send failed and whose second send succeeded is
\* available again.
C2_Witness ==
    \E e \in entities :
        /\ Len(sent[e]) = 2
        /\ sent[e][1].outcome = "http_error"
        /\ sent[e][2].outcome = "ok_json"
        /\ available[e]

\* A send or probe that the code counts as a success: a 2xx status, and for
\* a command send a JSON body as well.
Succeeded(a) ==
    \/ a.cmnd = "Status" /\ a.outcome \in {"ok_json", "ok_nojson"}
    \/ a.cmnd \in {"IRsend", "IRHVAC"} /\ a.outcome = "ok_json"

\* C3 as stated: when a command or refresh of an entity has returned, the
\* flag is true exactly when that operation succeeded and false exactly when
\* it failed, so every operation has an outcome that the flag then carries.
C3_FlagOfLastOperation ==
    \A e \in entities :
        (pc[e] = "idle" /\ op[e].name # "none")
        => /\ result[e] # NoAttempt
           /\ available[e] <=> Succeeded(result[e])

\* C3 amended: the flag is true exactly when the entity has tried no send or
\* probe yet or the last one it tried succeeded; an operation that tries none
\* (no code configured for the command, an unknown or empty command list, a
\* temperature call without temperature) leaves the flag as it was.
C3_FlagOfLastAttempt ==
    \A e \in entities : available[e] <=> (last[e] = NoAttempt \/ Succeeded(last[e]))

\* An operation that tried no send has returned on an entity whose last send
\* or probe had failed: the flag is still false.
C3_Witness ==
    \E e \in entities :
        /\ pc[e] = "idle"
        /\ op[e].name # "none"
        /\ result[e] = NoAttempt
        /\ last[e] # NoAttempt
        /\ ~Succeeded(last[e])
        /\ ~available[e]

\* C4: the flag goes from false to true only in the step in which an
\* outbound call of that entity (command send or probe) returns with success.
C4_OnlySuccessRestores ==
    [][\A e \in entities :
        (~available[e] /\ available'[e])
        => (pc[e] = "waiting" /\ last'[e].cmnd = LastSent(e).cmnd /\ Succeeded(last'[e]))]_vars

\* A fan whose last send or probe failed has since run async_oscillate
\* without an outbound call: it is still unavailable.
C4_Witness ==
    \E e \in entities :
        /\ Kind[e] = "fan"
        /\ pc[e] = "idle"
        /\ op[e].name = "async_oscillate"
        /\ result[e] = NoAttempt
        /\ last[e] # NoAttempt
        /\ ~available[e]

\* The handler invocation on e is a climate or fan command whose outbound
\* call has failed and which has returned.
FailedApplianceCommand(e) ==
    /\ Kind[e] \in {"climate", "fan"}
    /\ IsCommand(e)
    /\ pc[e] = "idle"
    /\ sent[e] # <<>>
    /\ LastSent(e).outcome \in CommandFailures

\* C5 as stated: after a climate or fan command whose outbound call failed,
\* the appliance state is what it was when the handler was called.
C5_FailedCommandNoEffect ==
    \A e \in entities : FailedApplianceCommand(e) => appliance[e] = pre[e]

\* The values a command asks for, written into state st.
Commanded(o, st) ==
    CASE o.name = "async_set_temperature" -> [st EXCEPT !.target_temperature = o.temperature]
      [] o.name = "async_set_hvac_mode"   -> [st EXCEPT !.hvac_mode = o.hvac_mode]
      [] o.name = "async_set_fan_mode"    -> [st EXCEPT !.fan_mode = o.fan_mode]
      [] o.name = "async_set_swing_mode"  -> [st EXCEPT !.swing_mode = o.swing_mode]
      [] o.name = "async_turn_off"        ->
            [st EXCEPT !.is_on = FALSE, !.percentage = 0, !.preset_mode = NonePreset]
      [] o.name = "async_oscillate"       -> [st EXCEPT !.oscillating = o.oscillating]
      [] o.name = "async_set_preset_mode" \/ (o.name = "async_turn_on" /\ o.preset_mode # NonePreset) ->
            [st EXCEPT !.is_on = TRUE, !.percentage = None, !.preset_mode = o.preset_mode]
      [] o.name = "async_turn_on" /\ o.preset_mode = NonePreset /\ o.percentage = None ->
            [st EXCEPT !.is_on = TRUE]
      [] o.name \in {"async_set_percentage", "async_turn_on"} /\ o.percentage = 0 ->
            [st EXCEPT !.is_on = FALSE, !.percentage = 0, !.preset_mode = NonePreset]
      [] OTHER ->
            [st EXCEPT !.is_on = TRUE, !.percentage = o.percentage, !.preset_mode = NonePreset]

\* C5 amended: a climate or fan command whose outbound call failed leaves
\* the flag false and the appliance state set to the commanded values, as a
\* successful command does.
C5_FailedCommandStillAssigns ==
    \A e \in entities :
        FailedApplianceCommand(e)
        => (~available[e] /\ appliance[e] = Commanded(op[e], pre[e]))

\* A failed async_set_temperature has changed the target temperature.
C5_Witness ==
    \E e \in entities :
        /\ FailedApplianceCommand(e)
        /\ op[e].name = "async_set_temperature"
        /\ appliance[e].target_temperature = op[e].temperature
        /\ pre[e].target_temperature # op[e].temperature

\* C6 as stated: an invocation issues at most one outbound request, and none
\* after a request of it has failed.
C6_AtMostOneRequest ==
    \A e \in entities :
        /\ Len(sent[e]) <= 1
        /\ \A i \in 1..(Len(sent[e]) - 1) : Succeeded(Attempted(sent[e][i].cmnd, sent[e][i].outcome))

\* The names of a command list that are configured buttons with protocol,
\* bits and data.
SendableNames(command, buttons) ==
    LET sendable(cmd) == cmd \in DOMAIN buttons /\ HasFields(buttons[cmd])
    IN  SelectSeq(command, sendable)

\* C6 amended: a button, climate or fan command and every refresh issue at
\* most one outbound request; async_send_command of a remote issues one
\* request for each name of its list that is a configured button, in list
\* order, also after one of them has failed.
C6_OneRequestPerCommand ==
    \A e \in entities :
        /\ (Kind[e] # "remote" \/ op[e].name # "async_send_command") => Len(sent[e]) <= 1
        /\ (Kind[e] = "remote" /\ op[e].name = "async_send_command")
           => LET names == SendableNames(op[e].command, cfg[e].buttons)
              IN  /\ Len(sent[e]) <= Len(names)
                  /\ \A i \in 1..Len(sent[e]) : sent[e][i].key = names[i]
                  /\ pc[e] = "idle" => Len(sent[e]) = Len(names)

\* A remote has sent a second request after its first one failed.
C6_Witness ==
    \E e \in entities :
        /\ Kind[e] = "remote"
        /\ Len(sent[e]) = 2
        /\ sent[e][1].outcome = "conn_error"

\* The result of the handler's response check agrees with the last request.
JustAnswered(e) ==
    /\ sent[e] # <<>>
    /\ LastSent(e).outcome # "pending"
    /\ result[e] = Attempted(LastSent(e).cmnd, LastSent(e).outcome)

\* C7 as stated: for the three verbs, the probe included, the flag is true
\* after a response only when the status is 2xx and the body is JSON.
C7_SuccessNeedsBody ==
    \A e \in entities :
        JustAnswered(e) => (available[e] <=> LastSent(e).outcome = "ok_json")

\* C7 amended: a command send (IRsend, IRHVAC) counts as success only with
\* a 2xx status and a JSON body; the probe of async_update does not read the
\* body and counts every 2xx response as success.
C7_SuccessByVerb ==
    \A e \in entities :
        JustAnswered(e)
        => (available[e] <=>
                \/ LastSent(e).outcome = "ok_json"
                \/ LastSent(e).cmnd = "Status" /\ LastSent(e).outcome = "ok_nojson")

\* A probe answered with 2xx and a body that is not JSON: the entity is
\* available.
C7_Witness ==
    \E e \in entities :
        /\ JustAnswered(e)
        /\ LastSent(e).cmnd = "Status"
        /\ LastSent(e).outcome = "ok_nojson"
        /\ available[e]

\* C8: every outbound call has its timeout in force (10 seconds for a
\* command send, 5 for a probe) and no handler waits on the device for ever.
C8_TimeoutInForce ==
    \A e \in entities :
        /\ \A i \in 1..Len(sent[e]) :
            sent[e][i].timeout =
                IF sent[e][i].cmnd = "Status" THEN ProbeTimeout ELSE CommandTimeout
        /\ pc[e] # "blocked"

\* The fan command on e is async_set_percentage with a positive percentage
\* and its speed command has gone out.
PositivePercentageSent(e) ==
    /\ Kind[e] = "fan"
    /\ op[e].name = "async_set_percentage"
    /\ op[e].percentage > 0
    /\ sent[e] # <<>>

Abs(x) == IF x < 0 THEN -x ELSE x

Clamp(x, lo, hi) == IF x < lo THEN lo ELSE IF x > hi THEN hi ELSE x

\* The integer nearest to num / den, the upper one at a tie.
NearestTieUp(num, den) ==
    CHOOSE k \in 0..(num + 1) : 2 * (den * k - num) <= den /\ 2 * (num - den * k) < den

\* The integer nearest to num / den, the even one at a tie.
NearestTieEven(num, den) ==
    CHOOSE k \in 0..(num + 1) :
        /\ 2 * Abs(den * k - num) <= den
        /\ 2 * Abs(den * k - num) = den => k % 2 = 0

\* C9 as stated, round taking a tie upwards: async_set_percentage(p) with
\* 0 < p <= 100 on a fan of n speeds sends speed_<clamp(round(p*n/100), 1, n)>.
C9_SpeedLevelTieUp ==
    \A e \in entities :
        PositivePercentageSent(e)
        => sent[e][1].key =
            SpeedKey(Clamp(NearestTieUp(op[e].percentage * cfg[e].speed_count, 100),
                           1, cfg[e].speed_count))

\* C9 amended: round is Python's round, which takes a tie to the even
\* integer: the command is speed_<clamp(round(p*n/100), 1, n)> with that
\* rounding, so 50 percent of five speeds is speed_2.
C9_SpeedLevelTieEven ==
    \A e \in entities :
        PositivePercentageSent(e)
        => sent[e][1].key =
            SpeedKey(Clamp(NearestTieEven(op[e].percentage * cfg[e].speed_count, 100),
                           1, cfg[e].speed_count))

\* 50 percent on a fan of five speeds has sent speed_2.
C9_Witness ==
    \E e \in entities :
        /\ PositivePercentageSent(e)
        /\ op[e].percentage = 50
        /\ cfg[e].speed_count = 5
        /\ sent[e][1].key = "speed_2"

\* The fan command on e is async_set_percentage(0), directly or through
\* async_turn_on(percentage=0), and has returned.
PercentageZeroDone(e) ==
    /\ Kind[e] = "fan"
    /\ pc[e] = "idle"
    /\ \/ op[e].name = "async_set_percentage" /\ op[e].percentage = 0
       \/ op[e].name = "async_turn_on" /\ op[e].preset_mode = NonePreset /\ op[e].percentage = 0

SentKeys(e) == [i \in 1..Len(sent[e]) |-> sent[e][i].key]

IsOff(st) == ~st.is_on /\ st.percentage = 0 /\ st.preset_mode = NonePreset

\* C10 as stated: for every fan configuration async_set_percentage(0) sends
\* the power command and no other, and the fan state becomes off with
\* percentage 0 and no preset.
C10_ZeroSendsPower ==
    \A e \in entities :
        PercentageZeroDone(e) => (SentKeys(e) = <<"power">> /\ IsOff(appliance[e]))

\* C10 amended: power is the only command async_set_percentage(0) tries to
\* send; it goes out when ir_codes holds a power code with protocol, bits and
\* data and nothing goes out otherwise; no speed command is sent and the fan
\* state becomes off with percentage 0 and no preset.
C10_ZeroSendsPowerIfConfigured ==
    \A e \in entities :
        PercentageZeroDone(e)
        => /\ SentKeys(e) =
                IF "power" \in DOMAIN cfg[e].ir_codes /\ HasFields(cfg[e].ir_codes["power"])
                THEN <<"power">> ELSE <<>>
           /\ IsOff(appliance[e])

\* A fan that was on with a preset has been switched off by
\* async_set_percentage(0), which sent power.
C10_Witness ==
    \E e \in entities :
        /\ PercentageZeroDone(e)
        /\ op[e].name = "async_set_percentage"
        /\ SentKeys(e) = <<"power">>
        /\ pre[e].is_on
        /\ pre[e].preset_mode = "sleep"
        /\ IsOff(appliance[e])

\* ------------------------------------------------------------------------
\* Reading a command string back (the device's side)
\* ------------------------------------------------------------------------

AllHex == "0123456789ABCDEFabcdef"

HexValue(c) ==
    IF c \in Chars(HexDigits) THEN IndexIn(c, HexDigits) - 1
    ELSE IndexIn(c, "abcdef") + 9

IsEscape(t, i) ==
    /\ At(t, i) = "%"
    /\ At(t, i + 1) \in Chars(AllHex)
    /\ At(t, i + 2) \in Chars(AllHex)
    /\ 16 * HexValue(At(t, i + 1)) + HexValue(At(t, i + 2)) \in (32..126) \ {96}

\* Percent-decoding: every %XX becomes the character with code XX.  A long
\* text is decoded in two parts, cut where no escape is cut.
RECURSIVE unquote(_)
unquote(t) ==
    IF Len(t) = 0 THEN ""
    ELSE IF Len(t) >= 8
    THEN LET h   == Len(t) \div 2
             cut == IF IsEscape(t, h) THEN h - 1
                    ELSE IF IsEscape(t, h - 1) THEN h - 2 ELSE h
         IN  unquote(SubSeq(t, 1, cut)) \o unquote(From(t, cut + 1))
    ELSE IF IsEscape(t, 1)
    THEN chr(16 * HexValue(At(t, 2)) + HexValue(At(t, 3))) \o unquote(From(t, 4))
    ELSE At(t, 1) \o unquote(From(t, 2))

Digits == "0123456789"

Malformed == [ok |-> FALSE]

Parsed(v, i) == [ok |-> TRUE, val |-> v, pos |-> i]

RECURSIVE SkipSpace(_, _)
SkipSpace(t, i) == IF At(t, i) = " " THEN SkipSpace(t, i + 1) ELSE i

\* The characters of a JSON string from position i up to its closing quote.
RECURSIVE ScanString(_, _, _)
ScanString(t, i, acc) ==
    IF i > Len(t) THEN Malformed
    ELSE IF At(t, i) = "\"" THEN Parsed(acc, i + 1)
    ELSE IF At(t, i) = "\\"
    THEN IF At(t, i + 1) \in {"\"", "\\", "/"}
         THEN ScanString(t, i + 2, acc \o At(t, i + 1))
         ELSE Malformed
    ELSE ScanString(t, i + 1, acc \o At(t, i))

RECURSIVE ScanDigits(_, _, _)
ScanDigits(t, i, acc) ==
    IF At(t, i) \in Chars(Digits)
    THEN ScanDigits(t, i + 1, 10 * acc + IndexIn(At(t, i), Digits) - 1)
    ELSE Parsed(acc, i)

ParseNumber(t, i) ==
    IF At(t, i) = "-"
    THEN IF At(t, i + 1) \in Chars(Digits)
         THEN Parsed(0 - ScanDigits(t, i + 1, 0).val, ScanDigits(t, i + 1, 0).pos)
         ELSE Malformed
    ELSE IF At(t, i) \in Chars(Digits) THEN ScanDigits(t, i, 0)
    ELSE Malformed

ParseValue(t, i) ==
    IF At(t, i) = "\"" THEN ScanString(t, i + 1, "") ELSE ParseNumber(t, i)

\* The members of a JSON object from position i, as the sequence of their
\* <<key, value>> pairs.
RECURSIVE ParseMembers(_, _, _)
ParseMembers(t, i, acc) ==
    LET k == IF At(t, i) = "\"" THEN ScanString(t, i + 1, "") ELSE Malformed
        c == IF k.ok THEN SkipSpace(t, k.pos) ELSE 0
        v == IF k.ok /\ At(t, c) = ":" THEN ParseValue(t, SkipSpace(t, c + 1)) ELSE Malformed
        n == IF v.ok THEN SkipSpace(t, v.pos) ELSE 0
    IN  IF ~v.ok THEN Malformed
        ELSE IF At(t, n) = "," THEN ParseMembers(t, SkipSpace(t, n + 1), Append(acc, <<k.val, v.val>>))
        ELSE IF At(t, n) = "}" /\ SkipSpace(t, n + 1) > Len(t)
        THEN Parsed(Append(acc, <<k.val, v.val>>), n + 1)
        ELSE Malformed

\* json.loads of the text of an object: its members in the order of the text.
json_loads(t) ==
    LET i == SkipSpace(t, 1)
        j == SkipSpace(t, i + 1)
    IN  IF At(t, i) # "{" THEN Malformed
        ELSE IF At(t, j) = "}" /\ SkipSpace(t, j + 1) > Len(t) THEN Parsed(<<>>, j + 1)
        ELSE ParseMembers(t, j, <<>>)

\* The object a member sequence stands for (a later duplicate key wins).
ObjectOf(members) ==
    [k \in {members[i][1] : i \in 1..Len(members)} |->
        members[CHOOSE i \in 1..Len(members) :
                    /\ members[i][1] = k
                    /\ \A j \in (i + 1)..Len(members) : members[j][1] # k][2]]

KeysOf(members) == [i \in 1..Len(members) |-> members[i][1]]

\* The first position of character c in t, 0 when t has none.
Find(t, c) ==
    IF c \in Chars(t)
    THEN CHOOSE i \in 1..Len(t) : At(t, i) = c /\ \A j \in 1..(i - 1) : At(t, j) # c
    ELSE 0

RECURSIVE Split(_, _)
Split(t, c) ==
    IF Find(t, c) = 0 THEN <<t>>
    ELSE <<SubSeq(t, 1, Find(t, c) - 1)>> \o Split(From(t, Find(t, c) + 1), c)

\* The query parameters of a URL, each as the text name=value.
QueryParameters(url) == Split(From(url, Find(url, "?") + 1), "&")

\* The command string of a request: its cmnd query parameter.
CommandString(req) ==
    LET ps == QueryParameters(PreparedUrl(req))
    IN  ps[CHOOSE i \in 1..Len(ps) : SubSeq(ps[i], 1, 5) = "cmnd="]

\* The payload of a command string cmnd=<VERB>%20<payload>.
Payload(command) == From(command, Find(command, "%") + 3)

\* The code configured for the command an entity sent under key.
ConfiguredCode(e, key) ==
    CASE Kind[e] = "button" -> cfg[e].button_data
      [] Kind[e] = "remote" -> cfg[e].buttons[key]
      [] Kind[e] = "fan"    -> cfg[e].ir_codes[key]

\* Equal values of equal type (a text and a number are never the same).
Same(a, b) == ToString(a) = ToString(b)

\* The direct infrared commands the running or last invocations have sent,
\* each as <<entity, position in sent>>.
IrRequests ==
    UNION {{<<e, i>> : i \in {j \in 1..Len(sent[e]) : sent[e][j].cmnd = "IRsend"}} :
              e \in entities}

\* C11: percent-decoding the payload of the command string a button, fan or
\* remote entity sends and parsing it as JSON yields an object whose
\* Protocol, Bits, Data and Repeat are the configured protocol, bits, data
\* and repeat (0 for a code without a repeat field).
C11_PayloadRoundTrip ==
    \A x \in IrRequests :
        LET req    == sent[x[1]][x[2]]
            code   == ConfiguredCode(x[1], req.key)
            parsed == json_loads(unquote(Payload(CommandString(req))))
        IN  /\ parsed.ok
            /\ DOMAIN ObjectOf(parsed.val) = {"Protocol", "Bits", "Data", "Repeat"}
            /\ Same(ObjectOf(parsed.val)["Protocol"], code["protocol"])
            /\ Same(ObjectOf(parsed.val)["Bits"], code["bits"])
            /\ Same(ObjectOf(parsed.val)["Data"], code["data"])
            /\ Same(ObjectOf(parsed.val)["Repeat"],
                    IF "repeat" \in DOMAIN code THEN code["repeat"] ELSE 0)

\* A code whose data holds a percent sign followed by two hexadecimal digits
\* has been sent.
C11_Witness ==
    \E x \in IrRequests : Same(sent[x[1]][x[2]].payload.Data, "50%41")

\* The characters of a JSON text that lie outside its string tokens.
RECURSIVE OutsideStrings(_, _, _)
OutsideStrings(t, i, inside) ==
    IF i > Len(t) THEN {}
    ELSE IF inside
    THEN IF At(t, i) = "\\" THEN OutsideStrings(t, i + 2, TRUE)
         ELSE OutsideStrings(t, i + 1, At(t, i) # "\"")
    ELSE IF At(t, i) = "\"" THEN OutsideStrings(t, i + 1, TRUE)
    ELSE {At(t, i)} \cup OutsideStrings(t, i + 1, FALSE)

\* The JSON text a request carries.
JsonText(req) == unquote(Payload(CommandString(req)))

\* C12: the JSON text of a direct infrared command has exactly the keys
\* Protocol, Bits, Data, Repeat in that order and no whitespace between
\* tokens, its Repeat is 0 when the configured code has no repeat field, and
\* for NEC, 32, 0x44BB01FE without repeat the payload is the percent-encoding
\* of {"Protocol":"NEC","Bits":32,"Data":"0x44BB01FE","Repeat":0}.
C12_CompactOrderedJson ==
    \A x \in IrRequests :
        LET req    == sent[x[1]][x[2]]
            code   == ConfiguredCode(x[1], req.key)
            parsed == json_loads(JsonText(req))
        IN  /\ parsed.ok
            /\ KeysOf(parsed.val) = <<"Protocol", "Bits", "Data", "Repeat">>
            /\ " " \notin OutsideStrings(JsonText(req), 1, FALSE)
            /\ "repeat" \notin DOMAIN code => Same(ObjectOf(parsed.val)["Repeat"], 0)
            /\ (ToString(code) = ToString([protocol |-> "NEC", bits |-> 32, data |-> "0x44BB01FE"])) =>
                  /\ JsonText(req) =
                        "{\"Protocol\":\"NEC\",\"Bits\":32,\"Data\":\"0x44BB01FE\",\"Repeat\":0}"
                  /\ Payload(CommandString(req)) =
                        "%7B%22Protocol%22%3A%22NEC%22%2C%22Bits%22%3A32%2C%22Data%22%3A"
                        \o "%220x44BB01FE%22%2C%22Repeat%22%3A0%7D"

\* The code NEC, 32, 0x44BB01FE without a repeat field has been sent and
\* answered.
C12_Witness ==
    \E x \in IrRequests :
        /\ Same(sent[x[1]][x[2]].payload.Data, "0x44BB01FE")
        /\ "repeat" \notin DOMAIN ConfiguredCode(x[1], sent[x[1]][x[2]].key)
        /\ sent[x[1]][x[2]].outcome = "ok_json"

\* The verb of the commands of an entity kind.
VerbOf(kind) == IF kind = "climate" THEN "IRHVAC" ELSE "IRsend"

\* Every request of every entity, each as <<entity, position in sent>>.
Requests == UNION {{<<e, i>> : i \in 1..Len(sent[e])} : e \in entities}

\* C13: every outbound request is a GET to /cm on the configured address
\* with the single query parameter cmnd, which is Status for a refresh probe
\* and <VERB>%20<encoded-json> for a command, VERB being IRHVAC for a climate
\* entity and IRsend for a button, fan or remote entity.
C13_SingleCommandParameter ==
    \A x \in Requests :
        LET req == sent[x[1]][x[2]]
            url == PreparedUrl(req)
            ps  == QueryParameters(url)
        IN  /\ req.method = "GET"
            /\ SubSeq(url, 1, Find(url, "?") - 1) = "http://" \o DeviceIp \o "/cm"
            /\ Len(ps) = 1
            /\ \/ ps[1] = "cmnd=Status" /\ op[x[1]].name = "async_update"
               \/ /\ op[x[1]].name # "async_update"
                  /\ SubSeq(ps[1], 1, Find(ps[1], "%") + 2) =
                        "cmnd=" \o VerbOf(Kind[x[1]]) \o "%20"
                  /\ json_loads(unquote(Payload(ps[1]))).ok

\* A handler of entity e takes the step.
StepOf(e) == pc'[e] # pc[e] \/ op'[e] # op[e] \/ sent'[e] # sent[e]

\* C14: handlers of distinct entities interleave without touching one
\* another: a step changes the availability flag and the appliance state of
\* no entity but the one whose handler takes it, and only one entity's
\* handler takes a step at a time.
C14_EntitiesIndependent ==
    [][\A e \in entities :
          /\ (available'[e] # available[e] \/ appliance'[e] # appliance[e]) => StepOf(e)
          /\ StepOf(e) =>
                \A other \in entities \ {e} :
                    /\ ~StepOf(other)
                    /\ available'[other] = available[other]
                    /\ appliance'[other] = appliance[other]]_vars

\* The handlers of two buttons of one remote device are suspended on their
\* outbound calls at the same time, one button unavailable and the other
\* available.
C14_Witness ==
    /\ {"b1", "b2"} \subseteq entities
    /\ pc["b1"] = "waiting"
    /\ pc["b2"] = "waiting"
    /\ available["b1"] # available["b2"]

\* C15: appliance state is not persisted: an entity on which no handler has
\* run since it was constructed, for the first time or again after any
\* sequence of commands, is available and holds the fixed defaults: a
\* climate entity hvac mode off, target temperature 25, fan mode auto, swing
\* off; a fan entity off, percentage 0, not oscillating, no preset.
C15_ReconstructedDefaults ==
    \A e \in entities :
        op[e] = NoOp =>
            /\ available[e] = TRUE
            /\ Kind[e] = "climate" =>
                  /\ appliance[e].hvac_mode = "off"
                  /\ appliance[e].target_temperature = 25 * 10
                  /\ appliance[e].fan_mode = "auto_"
                  /\ appliance[e].swing_mode = "off_"
            /\ Kind[e] = "fan" =>
                  /\ appliance[e].is_on = FALSE
                  /\ appliance[e].percentage = 0
                  /\ appliance[e].oscillating = FALSE
                  /\ appliance[e].preset_mode = NonePreset

\* The entry has been set up again over entities that commands had moved
\* away from their initial state, and no handler has run since.
C15_Witness ==
    /\ rebuilt = "used"
    /\ \A e \in entities : op[e] = NoOp
    /\ \E e \in entities : Kind[e] \in {"climate", "fan"}

\* The sends the invocation op[e] goes through.
StepsOf(e) ==
    CASE Kind[e] = "button" /\ op[e].name = "async_press" -> <<Step("async_press", "")>>
      [] Kind[e] = "remote" /\ op[e].name = "async_send_command" ->
            SendCommandSteps(op[e].command, cfg[e].buttons)
      [] Kind[e] = "fan" /\ op[e].name \notin {"none", "async_update"} ->
            FanSteps(op[e], cfg[e])
      [] OTHER -> <<>>

\* The step is a direct infrared command whose configured entry lacks
\* protocol, bits or data.
MalformedStep(e, step) ==
    \/ /\ step.call = "async_press"
       /\ {"protocol", "bits", "data"} \ DOMAIN cfg[e].button_data # {}
    \/ /\ step.call = "_send_ir_command"
       /\ LET codes == IF Kind[e] = "fan" THEN cfg[e].ir_codes ELSE cfg[e].buttons
          IN  /\ step.key \in DOMAIN codes
              /\ {"protocol", "bits", "data"} \ DOMAIN codes[step.key] # {}

\* C16: a direct infrared command whose configured entry lacks protocol,
\* bits or data does not make the button, fan or remote handler raise to the
\* host, causes no outbound request, and leaves the entity unavailable: a
\* handler whose last send is such a command ends with availability false.
C16_MalformedCodeHandled ==
    \A e \in entities :
        LET steps == StepsOf(e) IN
        /\ (\E i \in 1..Len(steps) : MalformedStep(e, steps[i])) => ~raised[e]
        /\ \A i \in 1..Len(sent[e]) :
              sent[e][i].cmnd = "IRsend" =>
                  {"protocol", "bits", "data"} \subseteq DOMAIN ConfiguredCode(e, sent[e][i].key)
        /\ (steps # <<>> /\ pc[e] = "idle" /\ MalformedStep(e, steps[Len(steps)])) =>
              /\ ~available[e]
              /\ result[e] = Attempted("IRsend", "KeyError")

\* A fan whose power code lacks its data was turned off: the handler has
\* returned, nothing was sent and the fan is unavailable.
C16_Witness ==
    \E e \in entities :
        /\ Kind[e] = "fan"
        /\ op[e].name = "async_turn_off"
        /\ pc[e] = "idle"
        /\ MalformedStep(e, StepsOf(e)[1])
        /\ sent[e] = <<>>
        /\ ~available[e]
        /\ ~raised[e]

\* The device mode and fan speed the tables give for a platform mode.
ModePairs ==
    {<<"off", "Off">>, <<"auto", "Auto">>, <<"cool", "Cool">>, <<"heat", "Heat">>,
     <<"dry", "Dry">>, <<"fan_only", "Fan">>}

FanPairs ==
    {<<"auto_", "Auto">>, <<"min_", "Min">>, <<"low_", "Low">>, <<"med_", "Med">>,
     <<"high_", "High">>, <<"max_", "Max">>}

\* v is the image of k under pairs, missing when pairs has no k.
ImageOf(pairs, k, v, missing) ==
    IF \E q \in pairs : q[1] = k THEN <<k, v>> \in pairs ELSE v = missing

\* C17: the payload of the most recently sent IRHVAC command is the image of
\* the climate entity's current state: Vendor the configured vendor, Temp the
\* integer part of the target temperature, Mode and FanSpeed the mapped hvac
\* mode and fan mode, SwingV Auto exactly when the swing mode is vertical or
\* both, SwingH Auto exactly when it is horizontal or both.
C17_PayloadImageOfState ==
    \A e \in entities :
        (Kind[e] = "climate" /\ sent[e] # <<>> /\ LastSent(e).cmnd = "IRHVAC") =>
            LET data == LastSent(e).payload
                st   == appliance[e]
            IN  /\ data.Vendor = cfg[e].vendor
                /\ 10 * data.Temp <= st.target_temperature
                /\ st.target_temperature < 10 * (data.Temp + 1)
                /\ ImageOf(ModePairs, st.hvac_mode, data.Mode, "Auto")
                /\ ImageOf(FanPairs, st.fan_mode, data.FanSpeed, "Auto")
                /\ data.SwingV \in {"Auto", "Off"}
                /\ data.SwingH \in {"Auto", "Off"}
                /\ data.SwingV = "Auto" <=> st.swing_mode \in {"vertical_", "both_"}
                /\ data.SwingH = "Auto" <=> st.swing_mode \in {"horizontal_", "both_"}

\* After several commands the climate entity is cooling at 25.5 degrees with
\* swing in both directions, and its last command, sent by
\* async_set_fan_mode, was answered.
C17_Witness ==
    \E e \in entities :
        /\ Kind[e] = "climate"
        /\ op[e].name = "async_set_fan_mode"
        /\ appliance[e].hvac_mode = "cool"
        /\ appliance[e].target_temperature = 255
        /\ appliance[e].swing_mode = "both_"
        /\ appliance[e].fan_mode = "max_"
        /\ sent[e] # <<>>
        /\ LastSent(e).outcome = "ok_json"
        /\ LastSent(e).payload.Temp = 25

\* f and g are bijections between A and B that invert one another.
MutuallyInverse(f, A, g, B) ==
    /\ DOMAIN f = A
    /\ DOMAIN g = B
    /\ \A a \in A : f[a] \in B /\ g[f[a]] = a
    /\ \A b \in B : g[b] \in A /\ f[g[b]] = b

\* C18: the two hvac mode tables are mutually inverse bijections between
\* the six platform modes and the six device modes, the two fan mode tables
\* are mutually inverse bijections over their six entries, and so the mode
\* and fan speed a climate entity has sent translate back to its state.
C18_TablesMutuallyInverse ==
    /\ MutuallyInverse(HA_TO_TASMOTA_MODE,
                       {"off", "auto", "cool", "heat", "dry", "fan_only"},
                       TASMOTA_TO_HA_MODE,
                       {"Off", "Auto", "Cool", "Heat", "Dry", "Fan"})
    /\ Cardinality(DOMAIN HA_TO_TASMOTA_FAN) = 6
    /\ Cardinality(DOMAIN TASMOTA_TO_HA_FAN) = 6
    /\ MutuallyInverse(HA_TO_TASMOTA_FAN, DOMAIN HA_TO_TASMOTA_FAN,
                       TASMOTA_TO_HA_FAN, DOMAIN TASMOTA_TO_HA_FAN)
    /\ hvac_modes = DOMAIN HA_TO_TASMOTA_MODE
    /\ \A e \in entities :
          (Kind[e] = "climate" /\ sent[e] # <<>> /\ LastSent(e).cmnd = "IRHVAC") =>
              /\ appliance[e].hvac_mode \in hvac_modes =>
                    TASMOTA_TO_HA_MODE[LastSent(e).payload.Mode] = appliance[e].hvac_mode
              /\ appliance[e].fan_mode \in fan_modes =>
                    TASMOTA_TO_HA_FAN[LastSent(e).payload.FanSpeed] = appliance[e].fan_mode

\* A climate entity in fan_only mode with fan mode low has sent Mode Fan and
\* FanSpeed Low.
C18_Witness ==
    \E e \in entities :
        /\ Kind[e] = "climate"
        /\ appliance[e].hvac_mode = "fan_only"
        /\ appliance[e].fan_mode = "low_"
        /\ sent[e] # <<>>
        /\ LastSent(e).cmnd = "IRHVAC"
        /\ LastSent(e).payload.Mode = "Fan"
        /\ LastSent(e).payload.FanSpeed = "Low"

\* C19: in every IRHVAC command Power is Off exactly when Mode is Off, and
\* both exactly when the hvac mode is off; an hvac mode outside the six
\* supported ones is sent as Power On with Mode Auto.
C19_PowerFollowsMode ==
    \A e \in entities :
        \A i \in 1..Len(sent[e]) :
            sent[e][i].cmnd = "IRHVAC" =>
                LET data == sent[e][i].payload IN
                /\ data.Power \in {"On", "Off"}
                /\ data.Power = "Off" <=> data.Mode = "Off"
                /\ data.Power = "Off" <=> appliance[e].hvac_mode = "off"
                /\ appliance[e].hvac_mode \notin
                        {"off", "auto", "cool", "heat", "dry", "fan_only"} =>
                      data.Power = "On" /\ data.Mode = "Auto"

\* A climate entity that was off was set to an hvac mode the tables do not
\* hold, and the command was answered.
C19_Witness ==
    \E e \in entities :
        /\ Kind[e] = "climate"
        /\ op[e].name = "async_set_hvac_mode"
        /\ appliance[e].hvac_mode = "heat_cool"
        /\ pre[e].hvac_mode = "off"
        /\ sent[e] # <<>>
        /\ LastSent(e).outcome = "ok_json"
        /\ LastSent(e).payload.Mode = "Auto"

\* C20: in every state of a fan entity: off implies percentage 0 and no
\* preset; a preset implies no percentage and on; a positive percentage
\* implies on and no preset.
C20_FanStateConsistent ==
    \A e \in entities :
        Kind[e] = "fan" =>
            LET st == appliance[e] IN
            /\ ~st.is_on => st.percentage = 0 /\ st.preset_mode = NonePreset
            /\ st.preset_mode # NonePreset => st.percentage = None /\ st.is_on
            /\ st.percentage > 0 => st.is_on /\ st.preset_mode = NonePreset

\* A fan running at a percentage was given a preset: the preset is set and
\* the percentage cleared.
C20_Witness ==
    \E e \in entities :
        /\ Kind[e] = "fan"
        /\ op[e].name = "async_set_preset_mode"
        /\ pc[e] = "idle"
        /\ pre[e].percentage > 0
        /\ appliance[e].preset_mode = "sleep"
        /\ appliance[e].percentage = None
        /\ appliance[e].is_on

\* The fan command o cannot be resolved to an infrared code of the fan
\* configured with c.
Unresolvable(c, o) ==
    \/ /\ o.name = "async_set_percentage"
       /\ o.percentage > 0
       /\ SpeedKey(Clamp(NearestTieEven(o.percentage * c.speed_count, 100), 1, c.speed_count))
             \notin DOMAIN c.ir_codes
    \/ /\ o.name = "async_set_preset_mode"
       /\ \/ o.preset_mode \notin c.preset_modes
          \/ PresetKey(o.preset_mode) \notin DOMAIN c.ir_codes
    \/ /\ o.name = "async_oscillate"
       /\ \/ ~c.oscillation_supported
          \/ "swing" \notin DOMAIN c.ir_codes

\* C21: a fan command that cannot be resolved to a configured infrared code
\* issues no outbound request and leaves is_on, percentage, preset mode,
\* oscillating and the availability flag as they were.
C21_UnresolvableIsNoOp ==
    [][\A e \in entities :
          (Kind[e] = "fan" /\ pc[e] = "idle" /\ Unresolvable(cfg[e], op'[e])) =>
              /\ sent'[e] = <<>>
              /\ pc'[e] = "idle"
              /\ appliance'[e] = appliance[e]
              /\ available'[e] = available[e]]_vars

\* A running, unavailable fan was given a preset it cannot resolve: nothing
\* was sent, the fan is as it was before the command and still unavailable.
C21_Witness ==
    \E e \in entities :
        /\ Kind[e] = "fan"
        /\ op[e].name = "async_set_preset_mode"
        /\ Unresolvable(cfg[e], op[e])
        /\ pc[e] = "idle"
        /\ sent[e] = <<>>
        /\ pre[e].is_on
        /\ pre[e].percentage > 0
        /\ appliance[e] = pre[e]
        /\ ~available[e]

\* The names of a command list that are configured buttons.
ConfiguredNames(command, buttons) ==
    LET configured(cmd) == cmd \in DOMAIN buttons
    IN  SelectSeq(command, configured)

\* The requests of the running or last async_send_command of remote e are
\* those of names, in order and one after the other has been answered, and
\* once the call has returned the flag is flagAfter.
RequestsFollow(e, names, flagAfter) ==
    /\ Len(sent[e]) <= Len(names)
    /\ \A i \in 1..Len(sent[e]) :
          /\ sent[e][i].cmnd = "IRsend"
          /\ sent[e][i].key = names[i]
          /\ i < Len(sent[e]) => sent[e][i].outcome # "pending"
    /\ pc[e] = "idle" =>
          /\ Len(sent[e]) = Len(names)
          /\ available[e] = flagAfter

\* A call of async_send_command without a configured name issues no request
\* and leaves the flag as it was.
UnknownNamesIgnored(e) ==
    (/\ pc[e] = "idle"
     /\ op'[e].name = "async_send_command"
     /\ ConfiguredNames(op'[e].command, cfg[e].buttons) = <<>>)
    => /\ sent'[e] = <<>>
       /\ pc'[e] = "idle"
       /\ available'[e] = available[e]

\* async_send_command on remote e has been called with a configured name.
SendCommandCalled(e) ==
    /\ Kind[e] = "remote"
    /\ op[e].name = "async_send_command"
    /\ ConfiguredNames(op[e].command, cfg[e].buttons) # <<>>

\* C22 as stated: async_send_command issues one IRsend request for each name
\* of its list that is a configured button, in list order and each completed
\* before the next; a name that is not configured issues none and leaves
\* the flag alone; after the call the flag is the outcome of the last
\* configured name.
C22_OneRequestPerConfiguredName ==
    [][\A e \in entities :
          /\ Kind[e] = "remote" => UnknownNamesIgnored(e)
          /\ SendCommandCalled(e)' =>
                RequestsFollow(e, ConfiguredNames(op[e].command, cfg[e].buttons),
                               LastSent(e).outcome = "ok_json")']_vars

\* C22 amended: a request is issued for each configured name whose entry
\* holds protocol, bits and data; a configured name whose entry lacks one of
\* them issues no request and counts as failed.
C22_OneRequestPerSendableName ==
    [][\A e \in entities :
          /\ Kind[e] = "remote" => UnknownNamesIgnored(e)
          /\ SendCommandCalled(e)' =>
                LET names  == ConfiguredNames(op[e].command, cfg[e].buttons)
                    ending == names[Len(names)]
                IN  RequestsFollow(e, SendableNames(op[e].command, cfg[e].buttons),
                                   /\ HasFields(cfg[e].buttons[ending])
                                   /\ LastSent(e).outcome = "ok_json")']_vars

\* A remote was given a configured name followed by one that is not
\* configured: the call has returned after one request, which failed, and
\* the remote is unavailable.
C22_Witness ==
    \E e \in entities :
        /\ Kind[e] = "remote"
        /\ op[e].name = "async_send_command"
        /\ Len(op[e].command) = 2
        /\ op[e].command[1] \in DOMAIN cfg[e].buttons
        /\ op[e].command[2] \notin DOMAIN cfg[e].buttons
        /\ pc[e] = "idle"
        /\ Len(sent[e]) = 1
        /\ sent[e][1].outcome = "http_error"
        /\ ~available[e]

\* ------------------------------------------------------------------------
\* Config entries, wizard and options flow
\* ------------------------------------------------------------------------

\* The device type of an entry, a missing one counting as climate.
DeviceTypeOf(data) == IF "device_type" \in DOMAIN data THEN data.device_type ELSE "climate"

\* The platform each device type is to be forwarded to.
PlatformFor == [climate |-> "climate", fan |-> "fan", remote |-> "button"]

\* async_setup_entry or async_unload_entry has returned last.
ReturnedFrom(call) == hass.ret.call = call

\* C23: async_setup_entry forwards an entry to exactly the platform of its
\* device type (a missing one counting as climate) and returns True, and
\* forwards nothing and returns False for any other device type; a platform
\* it has forwarded to accepts the entry and, once its setup has run on the
\* loaded entry, has created entities; async_unload_entry unloads the
\* platforms setup forwarded.
C23_SetupForwardsOnePlatform ==
    /\ ReturnedFrom("async_setup_entry") =>
            LET device_type == DeviceTypeOf(hass.entries[hass.ret.entry].data)
            IN  IF device_type \in DOMAIN PlatformFor
                THEN hass.ret.value /\ hass.ret.platforms = <<PlatformFor[device_type]>>
                ELSE ~hass.ret.value /\ hass.ret.platforms = <<>>
    /\ \A i \in DOMAIN hass.entries : \A k \in 1..Len(hass.forwarded[i]) :
            LET platform == hass.forwarded[i][k]
            IN  /\ AddedBy(platform, hass.entries[i].data, i) # {}
                /\ (hass.entries[i].state = "loaded" /\ <<i, platform>> \notin hass.tasks) =>
                        \E x \in hass.added[i] : x.platform = platform
    /\ ReturnedFrom("async_unload_entry") =>
            hass.ret.platforms = hass.forwarded[hass.ret.entry]

\* C24: async_unload_entry returns True, and has the entry's id out of the
\* shared data, only when every platform unload returned True; when one
\* returned False or raised it returns False and the shared data are as they
\* were.
C24_UnloadOnlyWhenAllTrue ==
    ReturnedFrom("async_unload_entry") =>
        LET results == hass.ret.results
        IN  /\ hass.ret.value =>
                    /\ \A k \in 1..Len(results) : results[k] = "True"
                    /\ entry_id(hass.ret.entry) \notin hass.domain_data.keys
            /\ (\E k \in 1..Len(results) : results[k] \in {"False", "raise"}) =>
                    /\ ~hass.ret.value
                    /\ hass.domain_data = hass.ret.before

\* The user step of the wizard is taken.
UserStep == flow.result.type = "form" /\ flow.result.step_id = "user" /\ flow' # flow

\* An entry with the type, address and name the user step was given is
\* configured.
AlreadyConfigured(user_input) ==
    \E i \in DOMAIN hass.entries :
        LET data == hass.entries[i].data
        IN  /\ DeviceTypeOf(data) = user_input.device_type
            /\ "device_ip" \in DOMAIN data /\ data.device_ip = user_input.host
            /\ "name" \in DOMAIN data /\ data.name = user_input.name

\* The error code the user step owes for a reply.
OwedError(reply) ==
    CASE reply \in {"conn_error", "no_reply", "http_error"} -> "cannot_connect"
      [] reply \in {"ok_nojson", "ok_json"}                 -> "invalid_host"
      [] OTHER                                              -> "unknown"

\* C25: the user step moves on to the step of the chosen device type only
\* when the probe was answered 2xx with a JSON body holding Status and no
\* entry of the same type, address and name is configured; otherwise it shows
\* the user form again with the one error code owed, creates no entry and
\* leaves the collected data as they were; an entry is created only from the
\* step the user step moved on to.
C25_UserStepGatesEntry ==
    [][/\ UserStep =>
            LET user_input == flow'.submitted
                passed     == flow'.reply = "ok_status" /\ ~AlreadyConfigured(user_input)
            IN  /\ flow'.result.step_id # "user" =>
                        /\ passed
                        /\ flow'.result = Form(user_input.device_type, {})
                /\ ~passed =>
                        /\ flow'.result = Form("user", {OwedError(flow'.reply)})
                        /\ flow'.data = flow.data
                        /\ hass' = hass
       /\ flow'.result.type = "create_entry" =>
            \/ flow.result.type = "create_entry"
            \/ flow.result.type = "form" /\ flow.result.step_id = flow.data.device_type]_vars

\* C26: a remote-type entry never holds an empty button mapping, and the
\* remote step shows its form with an error only as no_buttons, with no
\* entry created.
C26_ButtonsNeverEmpty ==
    /\ \A i \in DOMAIN hass.entries :
            LET data == hass.entries[i].data
            IN  ("device_type" \in DOMAIN data /\ data.device_type = "remote") =>
                    /\ "buttons" \in DOMAIN data
                    /\ DOMAIN data.buttons # {}
    /\ (flow.result.type = "form" /\ flow.result.step_id = "remote"
            /\ flow.result.errors # {}) =>
            flow.result.errors = {"no_buttons"}

\* C27: the button entities of one entry that were created for different
\* button names have different unique ids.
C27_ButtonUniqueIdsDiffer ==
    \A i \in DOMAIN hass.entries : \A x, y \in hass.added[i] :
        (x.platform = "button" /\ y.platform = "button" /\ x.key # y.key) =>
            x.unique_id # y.unique_id

\* The init step of the options flow is taken.
InitStep == options.result = Form("init", {}) /\ options'.step = "init"

\* C28: when the options form is submitted with a device_ip that differs
\* from the stored one, the entry's data become the old ones with the new
\* device_ip and the entry is reloaded; when the device_ip is the stored one
\* and no configuration update is asked for, the host is left as it was and
\* nothing is reloaded.
C28_DeviceIpUpdated ==
    [][InitStep =>
        LET i          == options.entry
            data       == hass.entries[i].data
            user_input == options'.submitted
            stored     == IF "device_ip" \in DOMAIN data THEN data.device_ip ELSE ""
        IN  /\ user_input.device_ip # stored =>
                    /\ hass'.entries[i].data =
                            [k \in DOMAIN data \cup {"device_ip"} |->
                                IF k = "device_ip" THEN user_input.device_ip ELSE data[k]]
                    /\ options'.reloaded
            /\ (user_input.device_ip = stored /\ ~user_input.update_device_config) =>
                    /\ hass' = hass
                    /\ ~options'.reloaded]_vars

====
